---- MODULE Spec2Model ----
(***************************************************************************)
(* A model of the session resolver of the IntraNest chat backend:          *)
(* extract_session_from_request (src/backend/api/chat.py), the function    *)
(* that maps a request body and the request headers to the triple          *)
(* (session_id, user_id, is_librechat_request).                            *)
(*                                                                         *)
(* Python strings are sequences of one-character strings, so that strip(), *)
(* slicing, lower(), substring tests, f-string formatting and the digest   *)
(* are computed and not assumed.  A JSON value is a record [t, s]: t is    *)
(* "absent" (the key is not in the dict), "null" (None), "str" (s is the   *)
(* text) or "nonstr" (a truthy value that is not a string: a number, a     *)
(* list of content parts).                                                 *)
(***************************************************************************)
EXTENDS Integers, Sequences, FiniteSets, TLC

\* ------------------------------------------------------------------------
\* Bounds of the model
\* ------------------------------------------------------------------------

\* The wall clock advances at most this many half hours.
MaxClock == 3

\* A conversation grows to at most this many messages.
MaxTurns == 3

\* A messages list drawn at once holds at most this many entries.
MaxMessages == 2

\* A request carries at most this many headers.
MaxHeaders == 3

\* ------------------------------------------------------------------------
\* State
\* ------------------------------------------------------------------------

VARIABLES
  body,      \* request_data of the request being served
  headers,   \* its headers, in iteration order
  clock,     \* half hours of UTC since the start
  tz,        \* the server's time zone offset, in half hours
  pc,        \* "received": the call is to be made; "done": it has returned
  result,    \* what the last call returned
  earlier,   \* an earlier call of the same client, to compare with
  text,      \* the text handed to the text processor
  topic,     \* the previous topic handed to detect_topic_change
  llmCalls,  \* calls made to openai.chat.completions.create
  completion,\* what the last call to the LLM produced
  answer,    \* what the text processor returned
  apc,       \* "idle": the text processor is to be called; else the method that returned
  cache,     \* the shared cache: the stored state of the session
  turns,     \* the requests for the session: each one's own instances and progress
  backend,   \* how the collaborators of the endpoints behave
  progress,  \* the progress values written to the cache for an upload
  sse,       \* the events a streaming response has sent, and its generator's position
  reply      \* what an endpoint handed back to its caller

resolverVars == << body, headers, clock, tz, pc, result, earlier >>

analyzerVars == << text, topic, llmCalls, completion, answer, apc >>

memoryVars == << cache, turns >>

endpointVars == << backend, reply, progress, sse >>

vars == << resolverVars, analyzerVars, memoryVars, endpointVars >>

\* What the operations of one component leave alone.
nonResolverVars == << analyzerVars, memoryVars, endpointVars >>

nonAnalyzerVars == << resolverVars, memoryVars, endpointVars >>

\* ------------------------------------------------------------------------
\* Python strings
\* ------------------------------------------------------------------------

Rep(c, n) == [i \in 1..n |-> c]

LowerLetters ==
  << "a","b","c","d","e","f","g","h","i","j","k","l","m",
     "n","o","p","q","r","s","t","u","v","w","x","y","z" >>

UpperLetters ==
  << "A","B","C","D","E","F","G","H","I","J","K","L","M",
     "N","O","P","Q","R","S","T","U","V","W","X","Y","Z" >>

DigitChars == << "0","1","2","3","4","5","6","7","8","9" >>

HexChars == << "0","1","2","3","4","5","6","7","8","9","a","b","c","d","e","f" >>

\* The characters of the model, in code-point order.
Alphabet ==
  << "\t", " ", "-" >> \o DigitChars \o << "?" >> \o UpperLetters \o << "_" >> \o LowerLetters

Range(f) == {f[i] : i \in DOMAIN f}

CodePoints == [c \in Range(Alphabet) |-> CHOOSE i \in DOMAIN Alphabet : Alphabet[i] = c]

\* The code point of a character: its place in Alphabet stands for ord(c).
Ord(c) == CodePoints[c]

LowerSet == Range(LowerLetters)
UpperSet == Range(UpperLetters)
DigitSet == Range(DigitChars)

\* str.lower() on one character.
LowerChar(c) ==
  IF c \in UpperSet
  THEN LowerLetters[CHOOSE i \in DOMAIN UpperLetters : UpperLetters[i] = c]
  ELSE c

\* str.lower()
Lower(s) == SubSeq([i \in DOMAIN s |-> LowerChar(s[i])], 1, Len(s))

IsSpace(c) == c \in {" ", "\t", "\n", "\r"}

\* str.strip(): whitespace removed at both ends.
RECURSIVE LStrip(_)
LStrip(s) == IF s # << >> /\ IsSpace(Head(s)) THEN LStrip(Tail(s)) ELSE s

RECURSIVE RStrip(_)
RStrip(s) ==
  IF s # << >> /\ IsSpace(s[Len(s)]) THEN RStrip(SubSeq(s, 1, Len(s) - 1)) ELSE s

Strip(s) == RStrip(LStrip(s))

\* s[:n]
Prefix(s, n) == SubSeq(s, 1, IF Len(s) < n THEN Len(s) ELSE n)

\* sub in s
Contains(s, sub) ==
  \E i \in 0..(Len(s) - Len(sub)) : SubSeq(s, i + 1, i + Len(sub)) = sub

\* str(n) for n >= 0
RECURSIVE Decimal(_)
Decimal(n) ==
  IF n < 10 THEN << DigitChars[n + 1] >>
  ELSE Decimal(n \div 10) \o << DigitChars[(n % 10) + 1] >>

\* "%02d" % n
TwoDigits(n) == << DigitChars[(n \div 10) + 1], DigitChars[(n % 10) + 1] >>

\* "%04x" % n for 0 <= n < 65536
FourHex(n) ==
  << HexChars[(n \div 4096) + 1], HexChars[((n \div 256) % 16) + 1],
     HexChars[((n \div 16) % 16) + 1], HexChars[(n % 16) + 1] >>

\* ------------------------------------------------------------------------
\* JSON values and the Python operations the resolver applies to them
\* ------------------------------------------------------------------------

Absent == [t |-> "absent", s |-> << >>]
Null == [t |-> "null", s |-> << >>]
NonStr == [t |-> "nonstr", s |-> << >>]
Str(s) == [t |-> "str", s |-> s]

\* bool(v): None and "" are falsy.
Truthy(v) == (v.t = "str" /\ v.s # << >>) \/ v.t = "nonstr"

\* d.get(key): None when the key is not there.
DictGet(v) == IF v.t = "absent" THEN Null ELSE v

\* d.get(key, default): the default only when the key is not there.
DictGetDefault(v, d) == IF v.t = "absent" THEN d ELSE v

\* a or b
PyOr(a, b) == IF Truthy(a) THEN a ELSE b

\* f"{v}": the text of a string, "None" for None.
Format(v) == IF v.t = "str" THEN v.s ELSE << "N","o","n","e" >>

Anonymous == Str(<< "a","n","o","n","y","m","o","u","s" >>)

UserRole == Str(<< "u","s","e","r" >>)

\* ------------------------------------------------------------------------
\* Program constants
\* ------------------------------------------------------------------------

\* len(content.strip()) > 10
MinEssenceLen == 10

\* content[:200]
EssenceChars == 200

\* ------------------------------------------------------------------------
\* The clock and the digest
\* ------------------------------------------------------------------------

\* The clock counts half hours of UTC from 2024-01-15 22:00 UTC; the zone is
\* the offset of the server's local time zone, in half hours.
LocalHalfHours(now, zone) == (14 * 48 + 44) + now + zone

\* datetime.now().strftime('%Y%m%d_%H'): the naive local date and hour.
TimestampHour(now, zone) ==
  LET l == LocalHalfHours(now, zone)
  IN  << "2","0","2","4","0","1" >> \o TwoDigits(1 + (l \div 48))
        \o << "_" >> \o TwoDigits((l \div 2) % 24)

\* int(datetime.now().timestamp()): seconds since the epoch, whatever the zone.
UnixTimestamp(now) == 1704067200 + ((14 * 48 + 44) + now) * 1800

\* A position-weighted sum of the code points of s[lo..hi], modulo 46337.
RECURSIVE WeightedSum(_, _, _, _)
WeightedSum(s, lo, hi, mult) ==
  IF lo > hi THEN 0
  ELSE IF lo = hi THEN (Ord(s[lo]) * (1 + ((lo * mult) % 46337))) % 46337
  ELSE LET mid == (lo + hi) \div 2
       IN  (WeightedSum(s, lo, mid, mult) + WeightedSum(s, mid + 1, hi, mult)) % 46337

\* hashlib.md5(s.encode()).hexdigest()[:8]: a deterministic digest of the
\* whole text, eight hexadecimal characters.  MD5 itself is the library's;
\* two position-weighted sums of the text (and its length) stand for it.
Md5Hex8(s) ==
  FourHex((WeightedSum(s, 1, Len(s), 31) + Len(s)) % 46337)
    \o FourHex((WeightedSum(s, 1, Len(s), 131) + 7 * Len(s)) % 46337)

\* ------------------------------------------------------------------------
\* extract_session_from_request
\* ------------------------------------------------------------------------

\* What the function returns: the tuple, or an exception that leaves it.
\* via names the return statement taken.
Returned(sid, uid, inferred, via) ==
  [ok |-> TRUE, sid |-> sid, uid |-> uid, inferred |-> inferred, via |-> via]

Raised == [ok |-> FALSE, sid |-> Null, uid |-> Null, inferred |-> FALSE, via |-> "raise"]

\* A Method 1 that reads the camel-case key.
DirectSessionCamelCase(b) == DictGet(b.sessionId)

\* Method 1: session_id = request_data.get('session_id')
DirectSession(b) == DictGet(b.session_id)

\* Method 1: user_id = request_data.get('user_id', 'anonymous')
DirectUser(b) == DictGetDefault(b.user_id, Anonymous)

\* Method 2: sessionId or conversation_id or conversationId
AlternateSession(b) ==
  PyOr(PyOr(DictGet(b.sessionId), DictGet(b.conversation_id)),
       DictGet(b.conversationId))

\* Method 2: userId or user_id or user or 'anonymous'
AlternateUser(b) ==
  PyOr(PyOr(PyOr(DictGet(b.userId), DictGet(b.user_id)), DictGet(b.user)),
       Anonymous)

\* Method 3: messages = request_data.get('messages', [])
MessagesOf(b) == IF b.messages.t = "list" THEN b.messages.items ELSE << >>

\* A loop without the break: the last qualifying message wins.
RECURSIVE ConversationEssenceLast(_, _)
ConversationEssenceLast(msgs, i) ==
  IF i > Len(msgs) THEN [k |-> "none", essence |-> << >>]
  ELSE LET msg == msgs[i]
           role == DictGetDefault(msg.role, Str(<< >>))
           content == DictGetDefault(msg.content, Str(<< >>))
           rest == ConversationEssenceLast(msgs, i + 1)
       IN  IF msg.dict /\ role = UserRole /\ Truthy(content)
           THEN IF content.t # "str" THEN [k |-> "raise", essence |-> << >>]
                ELSE IF Len(Strip(content.s)) > MinEssenceLen /\ rest.k = "none"
                     THEN [k |-> "found", essence |-> Prefix(content.s, EssenceChars)]
                     ELSE rest
           ELSE rest

\* A loop that takes a message whose stripped content has 10 characters.
RECURSIVE ConversationEssenceAtLeast(_, _)
ConversationEssenceAtLeast(msgs, i) ==
  IF i > Len(msgs) THEN [k |-> "none", essence |-> << >>]
  ELSE LET msg == msgs[i]
           role == DictGetDefault(msg.role, Str(<< >>))
           content == DictGetDefault(msg.content, Str(<< >>))
       IN  IF msg.dict /\ role = UserRole /\ Truthy(content)
           THEN IF content.t # "str" THEN [k |-> "raise", essence |-> << >>]
                ELSE IF Len(Strip(content.s)) >= MinEssenceLen
                     THEN [k |-> "found", essence |-> Prefix(content.s, EssenceChars)]
                     ELSE ConversationEssenceAtLeast(msgs, i + 1)
           ELSE ConversationEssenceAtLeast(msgs, i + 1)

\* Method 3: the loop over the messages.  "found" with the essence at the
\* first user message whose stripped content is longer than 10 characters,
\* "none" when the loop ends without one, "raise" when content.strip() is
\* applied to a truthy content that is not a string.
RECURSIVE ConversationEssence(_, _)
ConversationEssence(msgs, i) ==
  IF i > Len(msgs) THEN [k |-> "none", essence |-> << >>]
  ELSE LET msg == msgs[i]
           role == DictGetDefault(msg.role, Str(<< >>))
           content == DictGetDefault(msg.content, Str(<< >>))
       IN  IF msg.dict /\ role = UserRole /\ Truthy(content)
           THEN IF content.t # "str" THEN [k |-> "raise", essence |-> << >>]
                ELSE IF Len(Strip(content.s)) > MinEssenceLen
                     THEN [k |-> "found", essence |-> Prefix(content.s, EssenceChars)]
                     ELSE ConversationEssence(msgs, i + 1)
           ELSE ConversationEssence(msgs, i + 1)

\* Method 3: f"{user_field}_{conversation_essence}", the text that is hashed.
HashInput(user, essence) == Format(user) \o << "_" >> \o essence

\* A conv_ id that also carries the hour of the call.
ConvSessionIdWithHour(user, essence) ==
  Str(<< "c","o","n","v","_" >> \o Format(user) \o << "_" >>
        \o Md5Hex8(HashInput(user, essence)) \o << "_" >> \o TimestampHour(clock, tz))

\* Method 3: f"conv_{user_field}_{conversation_hash}"
ConvSessionId(user, essence) ==
  Str(<< "c","o","n","v","_" >> \o Format(user) \o << "_" >>
        \o Md5Hex8(HashInput(user, essence)))

\* Method 3: f"user_{user_field}_{timestamp_hour}"
UserSessionId(user, now, zone) ==
  Str(<< "u","s","e","r","_" >> \o Format(user) \o << "_" >>
        \o TimestampHour(now, zone))

\* Method 5: f"flow_{user_from_request}_{current_hour}"
FlowSessionId(user, now, zone) ==
  Str(<< "f","l","o","w","_" >> \o Format(user) \o << "_" >>
        \o TimestampHour(now, zone))

\* Method 6: f"auto_{timestamp}_{uuid.uuid4().hex[:8]}"
AutoSessionId(now, hex8) ==
  Str(<< "a","u","t","o","_" >> \o Decimal(UnixTimestamp(now)) \o << "_" >> \o hex8)

\* A step that compares the header name as sent, without lower().
HeaderStepCaseSensitive(acc, h) ==
  IF Contains(h.name, << "s","e","s","s","i","o","n" >>) /\ ~Truthy(acc.session)
  THEN [acc EXCEPT !.session = Str(h.value)]
  ELSE IF Contains(h.name, << "u","s","e","r" >>) /\ ~Truthy(acc.user)
       THEN [acc EXCEPT !.user = Str(h.value)]
       ELSE acc

\* Method 4: one step of the loop over headers.items().
HeaderStep(acc, h) ==
  LET lower == Lower(h.name)
  IN  IF Contains(lower, << "s","e","s","s","i","o","n" >>) /\ ~Truthy(acc.session)
      THEN [acc EXCEPT !.session = Str(h.value)]
      ELSE IF Contains(lower, << "u","s","e","r" >>) /\ ~Truthy(acc.user)
           THEN [acc EXCEPT !.user = Str(h.value)]
           ELSE acc

\* Method 4: header_session and header_user after the loop.
RECURSIVE HeaderScan(_, _, _)
HeaderScan(hs, i, acc) ==
  IF i > Len(hs) THEN acc ELSE HeaderScan(hs, i + 1, HeaderStep(acc, hs[i]))

\* Method 3: taken when "messages and user_field".
ConversationIntelligence(b, now, zone) ==
  LET user_field == DictGet(b.user)
      e == ConversationEssence(MessagesOf(b), 1)
  IN  IF e.k = "raise" THEN Raised
      ELSE IF e.k = "found"
           THEN Returned(ConvSessionId(user_field, e.essence), user_field, TRUE, "conv")
           ELSE Returned(UserSessionId(user_field, now, zone), user_field, TRUE, "user")

\* Methods 5 and 6.
ContinuityOrNew(b, now, zone, hex8) ==
  LET user_from_request == DictGetDefault(b.user, Anonymous)
  IN  IF user_from_request # Anonymous
      THEN Returned(FlowSessionId(user_from_request, now, zone),
                    user_from_request, TRUE, "flow")
      ELSE Returned(AutoSessionId(now, hex8), Anonymous, TRUE, "auto")

\* Methods 4 to 6: the headers, then the synthesized sessions.
HeadersOrLater(b, hdrs, now, zone, hex8) ==
  LET scan == HeaderScan(hdrs, 1, [session |-> Null, user |-> Null])
  IN  IF hdrs # << >> /\ Truthy(scan.session)
      THEN Returned(scan.session, PyOr(scan.user, AlternateUser(b)), TRUE, "header")
      ELSE ContinuityOrNew(b, now, zone, hex8)

\* A resolver that derives the conversation session before it looks at the
\* explicit keys.
ExtractSessionConversationFirst(b, hdrs, now, zone, hex8) ==
  IF MessagesOf(b) # << >> /\ Truthy(DictGet(b.user))
  THEN ConversationIntelligence(b, now, zone)
  ELSE IF Truthy(DirectSession(b))
       THEN Returned(DirectSession(b), DirectUser(b), FALSE, "direct")
       ELSE IF Truthy(AlternateSession(b))
            THEN Returned(AlternateSession(b), AlternateUser(b), TRUE, "alternate")
            ELSE HeadersOrLater(b, hdrs, now, zone, hex8)

\* extract_session_from_request(request_data, headers) at local time
\* (clock, tz), with hex8 the characters uuid4 supplies.
ExtractSession(b, hdrs, now, zone, hex8) ==
  IF Truthy(DirectSession(b))
  THEN Returned(DirectSession(b), DirectUser(b), FALSE, "direct")
  ELSE IF Truthy(AlternateSession(b))
       THEN Returned(AlternateSession(b), AlternateUser(b), TRUE, "alternate")
       ELSE IF MessagesOf(b) # << >> /\ Truthy(DictGet(b.user))
            THEN ConversationIntelligence(b, now, zone)
            ELSE HeadersOrLater(b, hdrs, now, zone, hex8)

\* ------------------------------------------------------------------------
\* The requests the model sends
\* ------------------------------------------------------------------------

Message(role, content) == [dict |-> TRUE, role |-> role, content |-> content]

UserMessage(content) == Message(UserRole, Str(content))

AssistantMessage(content) ==
  Message(Str(<< "a","s","s","i","s","t","a","n","t" >>), Str(content))

\* An entry of the messages list that is not a dict (a bare string).
NotADict == [dict |-> FALSE, role |-> Absent, content |-> Absent]

MessageList(items) == [t |-> "list", items |-> items]

Header(name, value) == [name |-> name, value |-> value]

NoMessages == [t |-> "absent", items |-> << >>]

NoKeys ==
  [session_id |-> Absent, user_id |-> Absent, sessionId |-> Absent,
   conversation_id |-> Absent, conversationId |-> Absent, userId |-> Absent,
   user |-> Absent, messages |-> NoMessages]

\* Message texts around the two thresholds of the essence.
Hi == << "h","i" >>
TenChars == Rep("a", 10)
TenPadded == << " " >> \o Rep("a", 10) \o << " ", "\t" >>
ElevenChars == Rep("a", 11)
ElevenPadded == << " " >> \o Rep("a", 11)
TwoHundred == Rep("b", 200)
Over200x == Rep("b", 200) \o << "x" >>

Alice == Str(<< "a","l" >>)
Bob == Str(<< "b","o" >>)

\* The request bodies of the priority specification: every combination of
\* the session and user keys, with and without a conversation.
Bodies ==
  { [session_id |-> a, user_id |-> b, sessionId |-> c, conversation_id |-> d,
     conversationId |-> e, userId |-> f, user |-> g, messages |-> m] :
      a \in {Absent, Null, Str(<< >>), Str(<< "s","1" >>)},
      b \in {Absent, Null, Str(<< "u","1" >>)},
      c \in {Absent, Str(<< "s","2" >>)},
      d \in {Absent, Str(<< >>), Str(<< "s","3" >>)},
      e \in {Absent, Str(<< "s","4" >>)},
      f \in {Absent, Str(<< "u","2" >>)},
      g \in {Absent, Null, Str(<< >>), Anonymous, Alice},
      m \in {NoMessages, MessageList(<< UserMessage(Hi) >>),
             MessageList(<< AssistantMessage(ElevenChars), UserMessage(ElevenChars) >>),
             MessageList(<< UserMessage(Hi), Message(UserRole, NonStr) >>)} }

HeaderSets ==
  { << >>,
    << Header(<< "X","-","S","e","s","s","i","o","n","-","I","d" >>, << "h","1" >>) >>,
    << Header(<< "x","-","u","s","e","r" >>, << "h","u" >>),
       Header(<< "x","-","s","e","s","s","i","o","n" >>, << "h","2" >>) >> }

\* The offsets of the server's time zone, in half hours: UTC and UTC+05:30.
TzOffsets == {0, 11}

\* uuid.uuid4().hex[:8]
UuidHex8 == { Rep("0", 8), << "9","f","3","c","0","0","a","1" >> }

\* ------------------------------------------------------------------------
\* Calls
\* ------------------------------------------------------------------------

NoResult == [ok |-> FALSE, sid |-> Null, uid |-> Null, inferred |-> FALSE, via |-> "none"]

NoCall ==
  [set |-> FALSE, body |-> NoKeys, headers |-> << >>, clock |-> 0, result |-> NoResult]

ThisCall == [set |-> TRUE, body |-> body, headers |-> headers, clock |-> clock, result |-> result]

\* The text processor before any call.
AnalyzerIdle ==
  /\ text = << >>
  /\ topic = Null
  /\ llmCalls = 0
  /\ completion = Null
  /\ answer = Null
  /\ apc = "idle"

\* The cache before the session's first turn.
EmptyCache == [buffer |-> << >>, context_summary |-> Null, conversation_depth |-> 0]

\* No upload yet: nothing written, the local variables of the handlers unset.
NoUpload == [pc |-> "idle", writes |-> << >>, total_chunks |-> 0, i |-> 0, success_count |-> 0]

\* No streaming response yet.
NoStream == [pc |-> "idle", events |-> << >>, pending |-> << >>, sent |-> << >>,
             full_response |-> << >>, raised |-> FALSE]

\* No session stored, no request for it, nothing handed back.
ServiceIdle ==
  /\ cache = EmptyCache
  /\ turns = << >>
  /\ backend = Null
  /\ progress = NoUpload
  /\ sse = NoStream
  /\ reply = Null

InitWith(B, H) ==
  /\ AnalyzerIdle
  /\ ServiceIdle
  /\ body \in B
  /\ headers \in H
  /\ clock = 0
  /\ tz \in TzOffsets
  /\ pc = "received"
  /\ result = NoResult
  /\ earlier = NoCall

\* The endpoint calls extract_session_from_request on the request.
Resolve ==
  /\ pc = "received"
  /\ \E hex8 \in UuidHex8 :
       result' = ExtractSession(body, headers, clock, tz, hex8)
  /\ pc' = "done"
  /\ UNCHANGED << body, headers, clock, tz, earlier >>
  /\ UNCHANGED nonResolverVars

\* Half an hour passes.
Tick ==
  /\ clock < MaxClock
  /\ clock' = clock + 1
  /\ UNCHANGED << body, headers, tz, pc, result, earlier >>
  /\ UNCHANGED nonResolverVars

Init == InitWith(Bodies, HeaderSets)

Next == Resolve \/ Tick

Spec == Init /\ [][Next]_vars

\* ------------------------------------------------------------------------
\* The strategies, stated on the request alone
\* ------------------------------------------------------------------------

StartsWith(s, p) == Len(s) >= Len(p) /\ SubSeq(s, 1, Len(p)) = p

NonEmptyString(v) == v.t = "str" /\ v.s # << >>

\* 1: the body has a session_id with a value.
HasDirect(b) == NonEmptyString(b.session_id)

AlternateKeys(b) == << b.sessionId, b.conversation_id, b.conversationId >>

\* 2: one of the alternate session keys has a value.
HasAlternate(b) == \E i \in 1..3 : NonEmptyString(AlternateKeys(b)[i])

FirstAlternate(b) ==
  AlternateKeys(b)[CHOOSE i \in 1..3 :
     /\ NonEmptyString(AlternateKeys(b)[i])
     /\ \A j \in 1..(i - 1) : ~NonEmptyString(AlternateKeys(b)[j])]

\* 3: a non-empty messages list and a user field with a value.
HasConversation(b) ==
  b.messages.t = "list" /\ b.messages.items # << >> /\ NonEmptyString(b.user)

IsSessionHeader(h) == Contains(Lower(h.name), << "s","e","s","s","i","o","n" >>)

IsUserHeader(h) == Contains(Lower(h.name), << "u","s","e","r" >>)

\* 4: a header names a session and carries a value.
HasHeaderSession(hs) == \E i \in DOMAIN hs : IsSessionHeader(hs[i]) /\ hs[i].value # << >>

FirstHeaderSession(hs) ==
  CHOOSE i \in DOMAIN hs :
     /\ IsSessionHeader(hs[i]) /\ hs[i].value # << >>
     /\ \A j \in 1..(i - 1) : ~(IsSessionHeader(hs[j]) /\ hs[j].value # << >>)

\* 5: the body has a user key whose value is not 'anonymous'.
HasFlowUser(b) == b.user.t # "absent" /\ b.user # Anonymous

\* The lowest-numbered strategy whose condition the request meets.
Strategy(b, hs) ==
  IF HasDirect(b) THEN 1
  ELSE IF HasAlternate(b) THEN 2
  ELSE IF HasConversation(b) THEN 3
  ELSE IF HasHeaderSession(hs) THEN 4
  ELSE IF HasFlowUser(b) THEN 5
  ELSE 6

ConvPrefix(user) == << "c","o","n","v","_" >> \o user.s \o << "_" >>
UserPrefix(user) == << "u","s","e","r","_" >> \o user.s \o << "_" >>
FlowPrefix == << "f","l","o","w","_" >>
AutoPrefix == << "a","u","t","o","_" >>

Done == pc = "done" /\ result.ok

\* ------------------------------------------------------------------------
\* C1: the session id returned is the one of the lowest-numbered strategy
\* whose condition the request meets: the explicit session_id, else the
\* first alternate key with a value, else a conv_ or user_ id of the user
\* field, else the first session header with a value, else a flow_ id, else
\* an auto_ id.
\* ------------------------------------------------------------------------
PriorityOrder ==
  Done =>
    LET k == Strategy(body, headers)
        sid == result.sid
    IN  /\ sid.t = "str"
        /\ k = 1 => sid = body.session_id
        /\ k = 2 => sid = FirstAlternate(body)
        /\ k = 3 => \/ StartsWith(sid.s, ConvPrefix(body.user))
                    \/ StartsWith(sid.s, UserPrefix(body.user))
        /\ k = 4 => sid.s = headers[FirstHeaderSession(headers)].value
        /\ k = 5 => StartsWith(sid.s, FlowPrefix)
        /\ k = 6 => StartsWith(sid.s, AutoPrefix)

\* An explicit session_id together with a conversation that has an essence:
\* the explicit id is returned.
PriorityOrderWitness ==
  /\ Done
  /\ HasDirect(body) /\ HasConversation(body)
  /\ ConversationEssence(MessagesOf(body), 1).k = "found"
  /\ HasHeaderSession(headers)
  /\ result.sid = body.session_id

\* The values of the body's user keys, 'anonymous' and empty ones apart.
BodyUserValues(b) ==
  {v \in {b.userId, b.user_id, b.user} : NonEmptyString(v) /\ v # Anonymous}

HeaderValues(hs) == {Str(hs[i].value) : i \in DOMAIN hs}

\* ------------------------------------------------------------------------
\* C2: strategies are never blended.  When the session id comes from a
\* header (strategy 4) the user id is not a value of the body's userId,
\* user_id or user key; when the session id is the explicit session_id the
\* user id is neither a header's value nor the value of the user key.
\* ------------------------------------------------------------------------
NeverBlends ==
  Done =>
    /\ Strategy(body, headers) = 4 => result.uid \notin BodyUserValues(body)
    /\ Strategy(body, headers) = 1 =>
         /\ result.uid \notin HeaderValues(headers)
         /\ NonEmptyString(body.user) /\ body.user # Anonymous => result.uid # body.user

\* ------------------------------------------------------------------------
\* C3 as claimed: whenever the body carries a session_id key, empty and
\* null values included, that value is returned with is_inferred = false.
\* ------------------------------------------------------------------------
DirectSessionAnyValue ==
  Done /\ body.session_id.t # "absent" =>
    result.sid = body.session_id /\ result.inferred = FALSE

\* C3 as amended: a session_id with a non-empty value is returned unchanged
\* with is_inferred = false, whatever else the request holds; an empty or
\* null session_id is never returned: a later strategy supplies a non-empty
\* session id with is_inferred = true.
DirectSessionNonEmpty ==
  Done =>
    /\ HasDirect(body) => result.sid = body.session_id /\ result.inferred = FALSE
    /\ ~HasDirect(body) => NonEmptyString(result.sid) /\ result.inferred = TRUE

\* A non-empty session_id beside alternate keys, a conversation and a
\* session header; and an empty session_id that a later strategy replaces.
DirectSessionWitness ==
  /\ Done
  /\ \/ /\ HasDirect(body) /\ HasAlternate(body) /\ HasConversation(body)
        /\ HasHeaderSession(headers)
        /\ result.sid = body.session_id /\ ~result.inferred
     \/ /\ body.session_id = Str(<< >>) /\ HasAlternate(body)
        /\ result.sid = FirstAlternate(body) /\ result.inferred

\* ------------------------------------------------------------------------
\* C4: without an explicit session_id, the first alternate session key is
\* returned with is_inferred = true; and a user identifier supplied as
\* userId or user is returned as the user id, never replaced by
\* 'anonymous', also in a request that carries no session key at all.
\* ------------------------------------------------------------------------
AlternateSpellings ==
  Done /\ ~HasDirect(body) =>
    /\ HasAlternate(body) => result.sid = FirstAlternate(body) /\ result.inferred = TRUE
    /\ HasAlternate(body) /\ NonEmptyString(body.userId) => result.uid = body.userId
    /\ (\E v \in {body.userId, body.user} : NonEmptyString(v) /\ v # Anonymous) =>
         result.uid # Anonymous

\* ------------------------------------------------------------------------
\* Conversations without a session key
\* ------------------------------------------------------------------------

MessageKinds ==
  { UserMessage(Hi), UserMessage(TenChars), UserMessage(TenPadded),
    UserMessage(ElevenChars), UserMessage(ElevenPadded), UserMessage(Over200x),
    AssistantMessage(ElevenChars), NotADict, Message(UserRole, Str(<< >>)),
    Message(UserRole, Null), Message(UserRole, NonStr) }

SeqsUpTo(S, n) == UNION { [1..k -> S] : k \in 0..n }

\* Alice sends the user key alone, Bob a userId beside it.
EssenceBodies ==
  { [NoKeys EXCEPT !.user = uf[1], !.userId = uf[2], !.messages = MessageList(l)] :
      uf \in { << Alice, Absent >>, << Bob, Str(<< "u","2" >>) >> },
      l \in SeqsUpTo(MessageKinds, MaxMessages) \ {<< >>} }

InitEssence == InitWith(EssenceBodies, { << >> })

SpecEssence == InitEssence /\ [][Next]_vars

\* A message that supplies the essence: a dict with role 'user' whose
\* content is a string of more than 10 characters once stripped.
Qualifies(m) ==
  m.dict /\ m.role = UserRole /\ m.content.t = "str"
    /\ Len(Strip(m.content.s)) > MinEssenceLen

HasQualifying(msgs) == \E i \in DOMAIN msgs : Qualifies(msgs[i])

FirstQualifying(msgs) ==
  msgs[CHOOSE i \in DOMAIN msgs :
         Qualifies(msgs[i]) /\ \A j \in 1..(i - 1) : ~Qualifies(msgs[j])].content.s

NoSessionKey(b) == ~HasDirect(b) /\ ~HasAlternate(b)

\* ------------------------------------------------------------------------
\* C5 as claimed: the conv_ id carries the digest of the plain
\* concatenation of the user and the essence.
\* ------------------------------------------------------------------------
EssenceDigestPlain ==
  Done /\ NoSessionKey(body) /\ HasConversation(body)
       /\ HasQualifying(body.messages.items) =>
    LET essence == Prefix(FirstQualifying(body.messages.items), EssenceChars)
    IN  /\ result.sid = Str(ConvPrefix(body.user) \o Md5Hex8(body.user.s \o essence))
        /\ result.uid = body.user
        /\ result.inferred = TRUE

\* C5 as amended: the essence is the first user message whose stripped
\* length exceeds 10 (exactly 10 does not qualify), cut to 200 characters;
\* the session id is "conv_" + user + "_" + the first 8 hex characters of
\* the digest of user + "_" + essence; the user id is the user field and
\* is_inferred is true.
EssenceDigest ==
  Done /\ NoSessionKey(body) /\ HasConversation(body)
       /\ HasQualifying(body.messages.items) =>
    LET essence == Prefix(FirstQualifying(body.messages.items), EssenceChars)
    IN  /\ result.sid =
             Str(ConvPrefix(body.user) \o Md5Hex8(body.user.s \o << "_" >> \o essence))
        /\ result.uid = body.user
        /\ result.inferred = TRUE

\* A message of exactly 10 characters is passed over and a later one of
\* more than 200 characters supplies the essence, cut to 200.
EssenceDigestWitness ==
  /\ Done /\ result.via = "conv"
  /\ Len(body.messages.items) = 2
  /\ body.messages.items[1] = UserMessage(TenChars)
  /\ body.messages.items[2] = UserMessage(Over200x)
  /\ result.sid = ConvSessionId(body.user, TwoHundred)

\* ------------------------------------------------------------------------
\* C8: with a conversation but no qualifying user message the session id is
\* "user_" + user + "_" + YYYYMMDD_HH of the current UTC hour; in every
\* other case of strategy 3 it is a conv_ id.
\* ------------------------------------------------------------------------
HourFallbackUtc ==
  Done /\ NoSessionKey(body) /\ HasConversation(body) =>
    IF HasQualifying(body.messages.items)
    THEN StartsWith(result.sid.s, ConvPrefix(body.user))
    ELSE result.sid = Str(UserPrefix(body.user) \o TimestampHour(clock, 0))

\* ------------------------------------------------------------------------
\* Two requests of one client, one after the other
\* ------------------------------------------------------------------------

PairMessages ==
  { NoMessages,
    MessageList(<< UserMessage(Hi) >>),
    MessageList(<< UserMessage(ElevenChars) >>),
    MessageList(<< UserMessage(Hi), AssistantMessage(ElevenChars), UserMessage(ElevenChars) >>),
    MessageList(<< UserMessage(ElevenChars), AssistantMessage(Hi), UserMessage(ElevenPadded) >>),
    MessageList(<< UserMessage(ElevenPadded) >>),
    MessageList(<< NotADict, UserMessage(Over200x), UserMessage(ElevenChars) >>),
    MessageList(<< UserMessage(ElevenChars), Message(UserRole, NonStr) >>) }

PairBodies ==
  { [NoKeys EXCEPT !.user = u, !.messages = m] : u \in {Alice, Bob}, m \in PairMessages }

PairHeaders ==
  { << >>,
    << Header(<< "X","-","S","e","s","s","i","o","n","-","I","d" >>, << "h","1" >>) >> }

\* The client sends its next request.
NextRequest ==
  /\ pc = "done"
  /\ earlier' = ThisCall
  /\ body' \in PairBodies
  /\ headers' \in PairHeaders
  /\ pc' = "received"
  /\ result' = NoResult
  /\ UNCHANGED << clock, tz >>
  /\ UNCHANGED nonResolverVars

InitPair == InitWith(PairBodies, PairHeaders)

NextPair == Resolve \/ Tick \/ NextRequest

SpecPair == InitPair /\ [][NextPair]_vars

BothDone == Done /\ earlier.set /\ earlier.result.ok

\* ------------------------------------------------------------------------
\* C6: for a fixed user and a fixed first qualifying user message, two
\* calls return the same session id, whatever the clock, the call, the
\* other messages of the list and the headers are.
\* ------------------------------------------------------------------------
EssenceDeterminism ==
  BothDone
    /\ NoSessionKey(body) /\ NoSessionKey(earlier.body)
    /\ HasConversation(body) /\ HasConversation(earlier.body)
    /\ body.user = earlier.body.user
    /\ HasQualifying(body.messages.items) /\ HasQualifying(earlier.body.messages.items)
    /\ FirstQualifying(body.messages.items) = FirstQualifying(earlier.body.messages.items)
    => result.sid = earlier.result.sid

\* Two calls in different hours, with different lists and different headers
\* but the same first qualifying message, return the same conv_ id.
EssenceDeterminismWitness ==
  /\ BothDone
  /\ result.via = "conv" /\ earlier.result.via = "conv"
  /\ body.user = earlier.body.user
  /\ body.messages # earlier.body.messages
  /\ headers # earlier.headers
  /\ clock \div 2 # earlier.clock \div 2
  /\ FirstQualifying(body.messages.items) = FirstQualifying(earlier.body.messages.items)
  /\ result.sid = earlier.result.sid

HourBucketed(sid, user) ==
  StartsWith(sid.s, UserPrefix(user)) \/ StartsWith(sid.s, << "f","l","o","w","_" >> \o user.s)

\* ------------------------------------------------------------------------
\* C9: two requests of one non-anonymous user without a session, made in
\* the same UTC hour, get the same user_ or flow_ id whatever the server's
\* time zone; a request made one hour later gets a different id.
\* ------------------------------------------------------------------------
HourBucketUtc ==
  BothDone
    /\ body = earlier.body /\ headers = earlier.headers
    /\ NonEmptyString(body.user) /\ body.user # Anonymous
    /\ HourBucketed(result.sid, body.user)
    => /\ clock \div 2 = earlier.clock \div 2 => result.sid = earlier.result.sid
       /\ clock = earlier.clock + 2 => result.sid # earlier.result.sid

\* ------------------------------------------------------------------------
\* A conversation that grows turn by turn
\* ------------------------------------------------------------------------

TurnKinds ==
  { UserMessage(Hi), UserMessage(TenPadded), UserMessage(ElevenChars),
    UserMessage(ElevenPadded), AssistantMessage(ElevenChars) }

\* The first request of a conversation holds one or two messages.
ConversationStarts ==
  { [NoKeys EXCEPT !.user = Alice, !.messages = MessageList(l)] :
      l \in SeqsUpTo(TurnKinds, 2) \ {<< >>} }

\* The client appends a message to its list and sends the list again; the
\* first call of the conversation is remembered.
AppendTurn ==
  /\ pc = "done"
  /\ Len(body.messages.items) < MaxTurns
  /\ \E m \in TurnKinds :
       body' = [body EXCEPT !.messages = MessageList(Append(body.messages.items, m))]
  /\ earlier' = IF earlier.set THEN earlier ELSE ThisCall
  /\ pc' = "received"
  /\ result' = NoResult
  /\ UNCHANGED << headers, clock, tz >>
  /\ UNCHANGED nonResolverVars

InitConversation == InitWith(ConversationStarts, { << >> })

NextConversation == Resolve \/ Tick \/ AppendTurn

SpecConversation == InitConversation /\ [][NextConversation]_vars

\* ------------------------------------------------------------------------
\* C7 as claimed: every request of a growing conversation resolves to the
\* session id of its first request, also when the first user message is
\* short and a longer one follows, and when the turns are hours apart.
\* ------------------------------------------------------------------------
ContinuityAlways == BothDone => result.sid = earlier.result.sid

\* C7 as amended: when the first request already holds a user message of
\* more than 10 characters (stripped), every later request of the growing
\* conversation resolves to the session id of the first, whatever the hour.
ContinuityFromEssence ==
  BothDone /\ HasQualifying(earlier.body.messages.items) =>
    result.sid = earlier.result.sid

\* A conversation two messages longer than at its first request, resolved
\* an hour later, keeps the conv_ id of the first request.
ContinuityWitness ==
  /\ BothDone
  /\ HasQualifying(earlier.body.messages.items)
  /\ Len(body.messages.items) >= Len(earlier.body.messages.items) + 2
  /\ Qualifies(body.messages.items[Len(body.messages.items)])
  /\ body.messages.items[Len(body.messages.items)] # earlier.body.messages.items[1]
  /\ clock \div 2 # earlier.clock \div 2
  /\ StartsWith(result.sid.s, ConvPrefix(body.user))
  /\ result.sid = earlier.result.sid

\* ------------------------------------------------------------------------
\* Requests that only the headers can place
\* ------------------------------------------------------------------------

XSessionId == << "X","-","S","e","s","s","i","o","n","-","I","d" >>
XUserSession == << "x","-","u","s","e","r","-","s","e","s","s","i","o","n" >>
UserAgent == << "U","s","e","r","-","A","g","e","n","t" >>
XUserId == << "x","-","u","s","e","r","-","i","d" >>
Authorization == << "A","u","t","h","o","r","i","z","a","t","i","o","n" >>

HeaderPool ==
  { Header(XSessionId, << >>), Header(XSessionId, << "h","1" >>),
    Header(XUserSession, << >>), Header(XUserSession, << "h","2" >>),
    Header(UserAgent, << "u","a" >>),
    Header(XUserId, << >>), Header(XUserId, << "h","u" >>),
    Header(Authorization, << "k" >>) }

\* A dict has no two entries of one name.
HeaderLists ==
  { hs \in SeqsUpTo(HeaderPool, MaxHeaders) :
      \A i, j \in DOMAIN hs : i # j => hs[i].name # hs[j].name }

HeaderBodies ==
  { NoKeys,
    [NoKeys EXCEPT !.userId = Str(<< "u","2" >>)],
    [NoKeys EXCEPT !.user_id = Str(<< "u","1" >>), !.user = Alice],
    [NoKeys EXCEPT !.user = Bob, !.messages = MessageList(<< >>)] }

InitHeaders == InitWith(HeaderBodies, HeaderLists)

SpecHeaders == InitHeaders /\ [][Next]_vars

NoEarlierStrategy(b) == ~HasDirect(b) /\ ~HasAlternate(b) /\ ~HasConversation(b)

HasNamedSession(hs) == \E i \in DOMAIN hs : IsSessionHeader(hs[i])

FirstNamedSession(hs) ==
  CHOOSE i \in DOMAIN hs : IsSessionHeader(hs[i]) /\ \A j \in 1..(i - 1) : ~IsSessionHeader(hs[j])

HasNamedUser(hs) == \E i \in DOMAIN hs : IsUserHeader(hs[i])

FirstNamedUser(hs) ==
  CHOOSE i \in DOMAIN hs : IsUserHeader(hs[i]) /\ \A j \in 1..(i - 1) : ~IsUserHeader(hs[j])

UserCandidate(hs, i) ==
  IsUserHeader(hs[i]) /\ hs[i].value # << >> /\ i # FirstHeaderSession(hs)

FirstUserCandidate(hs) ==
  CHOOSE i \in DOMAIN hs :
     UserCandidate(hs, i) /\ \A j \in 1..(i - 1) : ~UserCandidate(hs, j)

\* The body's user id: the first of userId, user_id, user with a value.
BodyUser(b) ==
  IF NonEmptyString(b.userId) THEN b.userId
  ELSE IF NonEmptyString(b.user_id) THEN b.user_id
  ELSE IF NonEmptyString(b.user) THEN b.user
  ELSE Anonymous

FlowOnlyNamedUser ==
  Done /\ NoEarlierStrategy(body) /\ ~HasHeaderSession(headers) =>
    IF NonEmptyString(body.user) /\ body.user # Anonymous
    THEN /\ \E z \in TzOffsets :
              result.sid = Str(FlowPrefix \o body.user.s \o << "_" >> \o TimestampHour(clock, z))
         /\ result.uid = body.user
    ELSE /\ ~StartsWith(result.sid.s, FlowPrefix)
         /\ StartsWith(result.sid.s, AutoPrefix)

\* The shape of a last-resort id: "auto_", the ten digits of the unix
\* timestamp, "_" and eight hexadecimal characters.
IsAutoId(s) ==
  /\ Len(s) = 24
  /\ SubSeq(s, 1, 5) = AutoPrefix
  /\ \A i \in 6..15 : s[i] \in Range(DigitChars)
  /\ s[16] = "_"
  /\ \A i \in 17..24 : s[i] \in Range(HexChars)

\* ------------------------------------------------------------------------
\* C12: resolution is total.  Every call returns, for any keys, any shape
\* of the messages (entries that are not dicts, content that is not a
\* string) and any headers, a triple with a non-empty session id; when no
\* strategy 1-5 matches the id is "auto_" + unix timestamp + "_" + 8 hex
\* characters and the user id is 'anonymous'.
\* ------------------------------------------------------------------------
ResolutionTotal ==
  pc = "done" =>
    /\ result.ok
    /\ NonEmptyString(result.sid)
    /\ Strategy(body, headers) = 6 =>
         /\ IsAutoId(result.sid.s)
         /\ result.sid.s = AutoPrefix \o Decimal(UnixTimestamp(clock)) \o << "_" >>
                             \o SubSeq(result.sid.s, 17, 24)
         /\ result.uid = Anonymous

\* ------------------------------------------------------------------------
\* ConversationalTextProcessor: regular expressions
\* ------------------------------------------------------------------------

\* The number of phrases a text handed to the text processor is made of.
MaxPhrases == 2

\* \w
WordChars == LowerSet \cup UpperSet \cup DigitSet \cup {"_"}

IsWordChar(c) == c \in WordChars

\* \b at offset k of s: between s[k] and s[k+1], one is a word character
\* and the other is not (or is beyond the text).
WordBoundary(s, k) ==
  LET before == k >= 1 /\ IsWordChar(s[k])
      after == k < Len(s) /\ IsWordChar(s[k + 1])
  IN  before # after

\* The literal lit stands at offset i of s.
LitAt(s, i, lit) == i + Len(lit) <= Len(s) /\ SubSeq(s, i + 1, i + Len(lit)) = lit

\* The patterns of the tables: r'\ba\b', r'\ba.*b\b' and r'\bao?\b'.
Lit(a) == [a |-> a, b |-> << >>, gap |-> FALSE, opt |-> << >>]
Gap(a, b) == [a |-> a, b |-> b, gap |-> TRUE, opt |-> << >>]
Opt(a, o) == [a |-> a, b |-> << >>, gap |-> FALSE, opt |-> o]

\* The end of a pattern at offset j: the optional character, then \b.
EndsAt(s, j, p) ==
  \/ WordBoundary(s, j)
  \/ p.opt # << >> /\ LitAt(s, j, p.opt) /\ WordBoundary(s, j + Len(p.opt))

\* re.search(p, s): '.' matches every character but the newline.
ReSearch(p, s) ==
  \E i \in 0..Len(s) :
     /\ WordBoundary(s, i)
     /\ LitAt(s, i, p.a)
     /\ IF p.gap
        THEN \E j \in (i + Len(p.a))..Len(s) :
                /\ LitAt(s, j, p.b)
                /\ \A k \in (i + Len(p.a) + 1)..j : s[k] # "\n"
                /\ EndsAt(s, j + Len(p.b), p)
        ELSE EndsAt(s, i + Len(p.a), p)

\* ------------------------------------------------------------------------
\* classify_intent
\* ------------------------------------------------------------------------

\* ConversationIntent
Intents ==
  { "definition", "explanation", "improvement", "expansion", "summarization",
    "clarification", "general" }

DefinitionPatterns ==
  << Lit(<< "w","h","a","t"," ","i","s" >>), Lit(<< "d","e","f","i","n","e" >>), Lit(<< "e","x","p","l","a","i","n" >>), Lit(<< "m","e","a","n" >>),
     Lit(<< "d","e","f","i","n","i","t","i","o","n"," ","o","f" >>), Gap(<< "w","h","a","t"," ","d","o","e","s" >>, << "m","e","a","n" >>) >>

ImprovementPatterns ==
  << Gap(<< "h","o","w" >>, << "i","m","p","r","o","v","e" >>), Gap(<< "w","a","y","s"," ","t","o" >>, << "b","e","t","t","e","r" >>), Lit(<< "e","n","h","a","n","c","e" >>),
     Lit(<< "o","p","t","i","m","i","z","e" >>), Lit(<< "b","e","t","t","e","r" >>), Lit(<< "u","p","g","r","a","d","e" >>) >>

ExpansionPatterns ==
  << Lit(<< "e","x","p","a","n","d"," ","o","n" >>), Lit(<< "m","o","r","e"," ","a","b","o","u","t" >>), Lit(<< "t","e","l","l"," ","m","e"," ","m","o","r","e" >>),
     Lit(<< "e","l","a","b","o","r","a","t","e" >>), Lit(<< "d","e","t","a","i","l","s" >>), Lit(<< "i","n"," ","d","e","p","t","h" >>) >>

ExplanationPatterns ==
  << Lit(<< "h","o","w"," ","d","o","e","s" >>), Lit(<< "w","h","y" >>), Lit(<< "h","o","w"," ","t","o" >>), Lit(<< "p","r","o","c","e","s","s" >>),
     Lit(<< "w","o","r","k" >>), Lit(<< "f","u","n","c","t","i","o","n" >>), Lit(<< "o","p","e","r","a","t","e" >>) >>

SummarizationPatterns ==
  << Lit(<< "s","u","m","m","a","r","i","z","e" >>), Lit(<< "s","u","m","m","a","r","y" >>), Lit(<< "o","v","e","r","v","i","e","w" >>),
     Lit(<< "m","a","i","n"," ","p","o","i","n","t","s" >>), Gap(<< "k","e","y" >>, << "p","o","i","n","t","s" >>) >>

\* A table in the order in which the enum declares the intents.
IntentPatternsEnumOrder ==
  << [intent |-> "definition", patterns |-> DefinitionPatterns],
     [intent |-> "explanation", patterns |-> ExplanationPatterns],
     [intent |-> "improvement", patterns |-> ImprovementPatterns],
     [intent |-> "expansion", patterns |-> ExpansionPatterns],
     [intent |-> "summarization", patterns |-> SummarizationPatterns] >>

\* self.intent_patterns, in the insertion order of the dict.
IntentPatterns ==
  << [intent |-> "definition", patterns |-> DefinitionPatterns],
     [intent |-> "improvement", patterns |-> ImprovementPatterns],
     [intent |-> "expansion", patterns |-> ExpansionPatterns],
     [intent |-> "explanation", patterns |-> ExplanationPatterns],
     [intent |-> "summarization", patterns |-> SummarizationPatterns] >>

AnyMatch(patterns, s) == \E k \in DOMAIN patterns : ReSearch(patterns[k], s)

\* The loop over self.intent_patterns.items(): the intent of the first
\* group with a matching pattern, "" when the loops end without a return.
RECURSIVE RuleIntent(_, _)
RuleIntent(text_lower, g) ==
  IF g > Len(IntentPatterns) THEN ""
  ELSE IF AnyMatch(IntentPatterns[g].patterns, text_lower)
       THEN IntentPatterns[g].intent
       ELSE RuleIntent(text_lower, g + 1)

\* What openai.chat.completions.create does: it raises, or it answers with
\* a message whose content is None or a text.
LlmRaises == [k |-> "raise", s |-> << >>, entities |-> {}]
LlmNoContent == [k |-> "none", s |-> << >>, entities |-> {}]
LlmText(s) == [k |-> "text", s |-> s, entities |-> {}]

\* intent_mapping
IntentMapping ==
  << [word |-> << "d","e","f","i","n","i","t","i","o","n" >>, intent |-> "definition"],
     [word |-> << "i","m","p","r","o","v","e","m","e","n","t" >>, intent |-> "improvement"],
     [word |-> << "e","x","p","a","n","s","i","o","n" >>, intent |-> "expansion"],
     [word |-> << "e","x","p","l","a","n","a","t","i","o","n" >>, intent |-> "explanation"],
     [word |-> << "s","u","m","m","a","r","i","z","a","t","i","o","n" >>, intent |-> "summarization"],
     [word |-> << "c","l","a","r","i","f","i","c","a","t","i","o","n" >>, intent |-> "clarification"],
     [word |-> << "g","e","n","e","r","a","l" >>, intent |-> "general"] >>

\* A lookup whose default is the clarification intent.
IntentMappingGetClarification(word) ==
  IF \E k \in DOMAIN IntentMapping : IntentMapping[k].word = word
  THEN IntentMapping[CHOOSE k \in DOMAIN IntentMapping : IntentMapping[k].word = word].intent
  ELSE "clarification"

\* intent_mapping.get(result, ConversationIntent.GENERAL)
IntentMappingGet(word) ==
  IF \E k \in DOMAIN IntentMapping : IntentMapping[k].word = word
  THEN IntentMapping[CHOOSE k \in DOMAIN IntentMapping : IntentMapping[k].word = word].intent
  ELSE "general"

\* The try block of classify_intent after the call: content.strip().lower()
\* raises on None, and every exception is answered with GENERAL.
LlmIntent(r) ==
  IF r.k = "text" THEN IntentMappingGet(Lower(Strip(r.s))) ELSE "general"

\* The texts: up to MaxPhrases phrases, joined by single spaces.
RECURSIVE Join(_)
Join(ps) ==
  IF ps = << >> THEN << >>
  ELSE IF Len(ps) = 1 THEN ps[1]
  ELSE ps[1] \o << " " >> \o Join(Tail(ps))

IntentPhrases ==
  { << "w","h","a","t"," ","i","s" >>, << "E","x","p","l","a","i","n" >>, << "h","o","w" >>, << "i","m","p","r","o","v","e" >>, << "b","e","t","t","e","r" >>, << "t","e","l","l"," ","m","e"," ","m","o","r","e" >>,
    << "h","o","w"," ","t","o" >>, << "W","h","y" >>, << "s","u","m","m","a","r","y" >>, << "k","e","y" >>, << "p","o","i","n","t","s" >>, << "w","o","r","k","f","l","o","w" >>, << "h","e","l","l","o" >>,
    << "\n" >>, << "T","C","S" >>, << "m","a","i","n","t","a","i","n" >>,
    << "M","i","c","r","o","s","o","f","t" >> }

IntentTexts == { Join(ps) : ps \in SeqsUpTo(IntentPhrases, MaxPhrases) }

\* What the LLM answers when asked for the category.
IntentCompletions ==
  { LlmRaises, LlmNoContent, LlmText(<< >>),
    LlmText(<< "g","e","n","e","r","a","l" >>), LlmText(<< "c","l","a","r","i","f","i","c","a","t","i","o","n" >>), LlmText(<< "e","x","p","l","a","n","a","t","i","o","n" >>),
    LlmText(<< " ","D","e","f","i","n","i","t","i","o","n","\n" >>), LlmText(<< "I","M","P","R","O","V","E","M","E","N","T" >>), LlmText(<< "e","x","p","a","n","s","i","o","n" >>),
    LlmText(<< "s","u","m","m","a","r","i","z","a","t","i","o","n" >>), LlmText(<< "d","e","f","i","n","i","t","i","o","n","." >>),
    LlmText(<< "t","h","e"," ","i","n","t","e","n","t"," ","i","s"," ","g","e","n","e","r","a","l" >>), LlmText(<< "g","r","e","e","t","i","n","g" >>) }

\* classify_intent(text)
ClassifyIntent ==
  /\ apc = "idle"
  /\ LET rule == RuleIntent(Lower(text), 1)
     IN  IF rule # ""
         THEN /\ answer' = rule
              /\ UNCHANGED << llmCalls, completion >>
         ELSE \E r \in IntentCompletions :
                /\ completion' = r
                /\ llmCalls' = llmCalls + 1
                /\ answer' = LlmIntent(r)
  /\ apc' = "classify_intent"
  /\ UNCHANGED << text, topic >>
  /\ UNCHANGED nonAnalyzerVars

\* ------------------------------------------------------------------------
\* extract_entities
\* ------------------------------------------------------------------------

\* str.upper()
UpperChar(c) ==
  IF c \in LowerSet
  THEN UpperLetters[CHOOSE i \in DOMAIN LowerLetters : LowerLetters[i] = c]
  ELSE c

Upper(s) == SubSeq([i \in DOMAIN s |-> UpperChar(s[i])], 1, Len(s))

\* str.replace(' ', '_')
ReplaceSpaces(s) ==
  SubSeq([i \in DOMAIN s |-> IF s[i] = " " THEN "_" ELSE s[i]], 1, Len(s))

\* [A-Z]{n} at offset j of s
CapitalsAt(s, j, n) ==
  j + n <= Len(s) /\ \A k \in (j + 1)..(j + n) : s[k] \in UpperSet

\* \s{w} at offset j of s
SpacesAt(s, j, w) == j + w <= Len(s) /\ \A k \in (j + 1)..(j + w) : IsSpace(s[k])

Max(S) == CHOOSE x \in S : \A y \in S : y <= x

\* r'\b(TCS|IBM|MICROSOFT|GOOGLE|AMAZON|APPLE)\b'
CompanyNames ==
  << << "T","C","S" >>, << "I","B","M" >>, << "M","I","C","R","O","S","O","F","T" >>, << "G","O","O","G","L","E" >>, << "A","M","A","Z","O","N" >>, << "A","P","P","L","E" >> >>

\* The match of the first pattern at offset i, << >> when there is none.
CompanyAt(s, i) ==
  LET hits == { k \in DOMAIN CompanyNames :
                  /\ WordBoundary(s, i)
                  /\ LitAt(s, i, CompanyNames[k])
                  /\ WordBoundary(s, i + Len(CompanyNames[k])) }
  IN  IF hits = {} THEN << >>
      ELSE CompanyNames[CHOOSE k \in hits : \A l \in hits : k <= l]

\* r'\b([A-Z]{2,5}(?:\s+[A-Z]{2,5})?)\b' at offset i: the quantifiers are
\* greedy, so the longest run of capitals is tried first, with the optional
\* second word before without it.  << >> when there is no match.
AcronymAt(s, i) ==
  LET Second(n) ==
        { wm \in (1..(Len(s) - i)) \X (2..5) :
            /\ SpacesAt(s, i + n, wm[1])
            /\ CapitalsAt(s, i + n + wm[1], wm[2])
            /\ WordBoundary(s, i + n + wm[1] + wm[2]) }
      firsts == { n \in 2..5 :
                    /\ WordBoundary(s, i)
                    /\ CapitalsAt(s, i, n)
                    /\ (Second(n) # {} \/ WordBoundary(s, i + n)) }
  IN  IF firsts = {} THEN << >>
      ELSE LET n == Max(firsts)
           IN  IF Second(n) = {} THEN SubSeq(s, i + 1, i + n)
               ELSE LET w == Max({ wm[1] : wm \in Second(n) })
                        m == Max({ wm[2] : wm \in { x \in Second(n) : x[1] = w } })
                    IN  SubSeq(s, i + 1, i + n + w + m)

\* The first element of re.findall(pattern, s), << >> for an empty list.
FirstCompany(s) ==
  LET at == { i \in 0..Len(s) : CompanyAt(s, i) # << >> }
  IN  IF at = {} THEN << >> ELSE CompanyAt(s, CHOOSE i \in at : \A j \in at : i <= j)

FirstAcronym(s) ==
  LET at == { i \in 0..Len(s) : AcronymAt(s, i) # << >> }
  IN  IF at = {} THEN << >> ELSE AcronymAt(s, CHOOSE i \in at : \A j \in at : i <= j)

\* tech_keywords
TechKeywords ==
  << << "A","I" >>, << "A","R","T","I","F","I","C","I","A","L"," ","I","N","T","E","L","L","I","G","E","N","C","E" >>, << "M","A","C","H","I","N","E"," ","L","E","A","R","N","I","N","G" >>, << "B","L","O","C","K","C","H","A","I","N" >>,
     << "C","L","O","U","D" >>, << "C","Y","B","E","R","S","E","C","U","R","I","T","Y" >>, << "I","O","T" >> >>

\* A dict is a set of << key, value >> pairs, one per key.
DictSet(d, key, value) == { kv \in d : kv[1] # key } \cup { << key, value >> }

\* _simple_entity_extraction(text): the first match of each company pattern
\* is stored under "organization", the second pattern after the first; the
\* first keyword contained in the text is stored under "technology".
SimpleEntityExtraction(txt) ==
  LET text_upper == Upper(txt)
      c == FirstCompany(text_upper)
      a == FirstAcronym(text_upper)
      d1 == IF c # << >> THEN DictSet({}, "organization", c) ELSE {}
      d2 == IF a # << >> THEN DictSet(d1, "organization", a) ELSE d1
      kws == { k \in DOMAIN TechKeywords : Contains(text_upper, TechKeywords[k]) }
  IN  IF kws = {} THEN d2
      ELSE DictSet(d2, "technology",
                   ReplaceSpaces(Lower(TechKeywords[CHOOSE k \in kws : \A l \in kws : k <= l])))

\* The LLM's answer as json.loads sees it: a dict, another JSON value
\* ("list", "string", "number", "null"), or text that is not JSON.
LlmJson(kind, entities) == [k |-> kind, s |-> << >>, entities |-> entities]

EntityCompletions ==
  { LlmRaises, LlmNoContent,
    LlmJson("dict", {}), LlmJson("dict", { << "company", << "A","c","m","e" >> >> }),
    LlmJson("list", {}), LlmJson("string", {}), LlmJson("number", {}),
    LlmJson("null", {}), LlmJson("invalid", {}) }

\* extract_entities(text)
ExtractEntities ==
  /\ apc = "idle"
  /\ \E r \in EntityCompletions :
       /\ completion' = r
       /\ answer' = IF r.k \in {"raise", "none", "invalid"}
                    THEN SimpleEntityExtraction(text)
                    ELSE IF r.k = "dict" THEN r.entities ELSE {}
  /\ llmCalls' = llmCalls + 1
  /\ apc' = "extract_entities"
  /\ UNCHANGED << text, topic >>
  /\ UNCHANGED nonAnalyzerVars

\* The resolver when no request is being served.
ResolverIdle ==
  /\ body = NoKeys
  /\ headers = << >>
  /\ clock = 0
  /\ tz = 0
  /\ pc = "none"
  /\ result = NoResult
  /\ earlier = NoCall

InitAnalyzer ==
  /\ ResolverIdle
  /\ ServiceIdle
  /\ text \in IntentTexts
  /\ topic = Null
  /\ llmCalls = 0
  /\ completion = Null
  /\ answer = Null
  /\ apc = "idle"

NextAnalyzer == ClassifyIntent \/ ExtractEntities

SpecAnalyzer == InitAnalyzer /\ [][NextAnalyzer]_vars

\* The patterns of an intent's group, whatever the place of the group.
PatternsOf(intent) ==
  IntentPatterns[CHOOSE g \in DOMAIN IntentPatterns : IntentPatterns[g].intent = intent].patterns

\* The fixed order of the groups.
GroupOrder == << "definition", "improvement", "expansion", "explanation", "summarization" >>

GroupMatches(k, s) == AnyMatch(PatternsOf(GroupOrder[k]), s)

SomeRuleMatches(s) == \E k \in DOMAIN GroupOrder : GroupMatches(k, s)

\* ------------------------------------------------------------------------
\* C13: for a text that matches at least one rule pattern, classify_intent
\* returns the intent of the first group, in the order definition,
\* improvement, expansion, explanation, summarization, that holds a
\* matching pattern, and makes no call to the LLM.
\* ------------------------------------------------------------------------
IntentPrecedence ==
  apc = "classify_intent" /\ SomeRuleMatches(Lower(text)) =>
    /\ \E k \in DOMAIN GroupOrder :
         /\ GroupMatches(k, Lower(text))
         /\ \A j \in 1..(k - 1) : ~GroupMatches(j, Lower(text))
         /\ answer = GroupOrder[k]
    /\ llmCalls = 0

\* "how to improve" matches the improvement and the explanation group and
\* is classified as improvement without a call.
IntentPrecedenceWitness ==
  /\ apc = "classify_intent"
  /\ GroupMatches(2, Lower(text)) /\ GroupMatches(4, Lower(text))
  /\ ~GroupMatches(1, Lower(text))
  /\ answer = "improvement"
  /\ llmCalls = 0

\* The word the LLM answered, trimmed and in lower case.
AnsweredWord == Lower(Strip(completion.s))

Vocabulary ==
  { << "d","e","f","i","n","i","t","i","o","n" >>, << "e","x","p","l","a","n","a","t","i","o","n" >>, << "i","m","p","r","o","v","e","m","e","n","t" >>, << "e","x","p","a","n","s","i","o","n" >>,
    << "s","u","m","m","a","r","i","z","a","t","i","o","n" >>, << "c","l","a","r","i","f","i","c","a","t","i","o","n" >>, << "g","e","n","e","r","a","l" >> }

\* The characters of an intent's name.
NamesIntent(word, intent) ==
  \E w \in Vocabulary : w = word /\
    \E k \in DOMAIN IntentMapping : IntentMapping[k].word = w /\ IntentMapping[k].intent = intent

\* ------------------------------------------------------------------------
\* C14: when no rule pattern matches, classify_intent makes exactly one LLM
\* call; it returns the intent the LLM's answer names when that answer is
\* one of the seven vocabulary words, and general when the call fails or
\* the answer is outside the vocabulary.  It always returns one of the
\* seven intents.
\* ------------------------------------------------------------------------
IntentFallback ==
  apc = "classify_intent" =>
    /\ answer \in Intents
    /\ ~SomeRuleMatches(Lower(text)) =>
         /\ llmCalls = 1
         /\ IF completion.k = "text" /\ AnsweredWord \in Vocabulary
            THEN NamesIntent(AnsweredWord, answer)
            ELSE answer = "general"

\* No rule matches, the LLM answers " Definition\n" and the intent is
\* definition; or it answers outside the vocabulary and the intent is general.
IntentFallbackWitness ==
  /\ apc = "classify_intent"
  /\ ~SomeRuleMatches(Lower(text))
  /\ llmCalls = 1
  /\ \/ completion.k = "text" /\ completion.s # AnsweredWord /\ answer = "definition"
     \/ completion.k = "text" /\ completion.s = << "d","e","f","i","n","i","t","i","o","n","." >> /\ answer = "general"

\* ------------------------------------------------------------------------
\* C15: whenever the LLM call fails or its output is malformed (not JSON,
\* or JSON that is not a mapping: a list, a string, a number),
\* extract_entities returns the rule-based extraction of the input text.
\* ------------------------------------------------------------------------
EntitiesFallback ==
  apc = "extract_entities"
    /\ completion.k \in {"raise", "none", "invalid", "list", "string", "number"}
    => answer = SimpleEntityExtraction(text)

\* ------------------------------------------------------------------------
\* detect_topic_change
\* ------------------------------------------------------------------------

\* str.split(): the words between runs of whitespace.
RECURSIVE SplitFrom(_, _, _)
SplitFrom(s, i, word) ==
  IF i > Len(s) THEN (IF word = << >> THEN << >> ELSE << word >>)
  ELSE IF IsSpace(s[i])
       THEN (IF word = << >> THEN SplitFrom(s, i + 1, << >>)
             ELSE << word >> \o SplitFrom(s, i + 1, << >>))
       ELSE SplitFrom(s, i + 1, Append(word, s[i]))

Split(s) == SplitFrom(s, 1, << >>)

\* change_indicators
ChangeIndicators ==
  << Lit(<< "l","e","t","'","s"," ","t","a","l","k"," ","a","b","o","u","t" >>), Opt(<< "c","h","a","n","g","i","n","g"," ","t","o","p","i","c" >>, << "s" >>), Lit(<< "m","o","v","e"," ","o","n"," ","t","o" >>),
     Lit(<< "n","e","x","t"," ","t","o","p","i","c" >>), Lit(<< "d","i","f","f","e","r","e","n","t"," ","q","u","e","s","t","i","o","n" >>), Lit(<< "a","n","o","t","h","e","r"," ","t","o","p","i","c" >>) >>

\* sum(1 for word in topic_words if word in current_lower)
TopicMatches(topic_words, current_lower) ==
  Cardinality({ k \in DOMAIN topic_words : Contains(current_lower, topic_words[k]) })

\* A threshold that also takes exactly 30% for a change.
BelowThresholdInclusive(matches, n) == n > 0 /\ 10 * matches <= 3 * n

\* len(topic_words) > 0 and topic_matches / len(topic_words) < 0.3
BelowThreshold(matches, n) == n > 0 /\ 10 * matches < 3 * n

\* detect_topic_change(current_message, previous_topic)
TopicChanged(current_message, previous_topic) ==
  IF ~Truthy(previous_topic) THEN FALSE
  ELSE LET current_lower == Lower(current_message)
           topic_words == Split(Lower(previous_topic.s))
       IN  \/ AnyMatch(ChangeIndicators, current_lower)
           \/ BelowThreshold(TopicMatches(topic_words, current_lower), Len(topic_words))

DetectTopicChange ==
  /\ apc = "idle"
  /\ answer' = TopicChanged(text, topic)
  /\ apc' = "detect_topic_change"
  /\ UNCHANGED << text, topic, llmCalls, completion >>
  /\ UNCHANGED nonAnalyzerVars

TopicPhrases ==
  { << "p","u","m","p"," ","r","e","p","a","i","r"," ","c","o","s","t" >>, << "P","u","m","p" >>, << "r","e","p","a","i","r","s" >>, << "p","l","a","n" >>, << "m","a","i","n","t","a","i","n" >>,
    << "L","e","t","'","s"," ","t","a","l","k"," ","a","b","o","u","t" >>, << "c","h","a","n","g","i","n","g"," ","t","o","p","i","c","s" >>, << "c","h","a","n","g","i","n","g"," ","t","o","p","i","c","a","l" >>, << "h","e","l","l","o" >> }

TopicTexts == { Join(ps) : ps \in SeqsUpTo(TopicPhrases, MaxPhrases) }

PreviousTopics ==
  { Null, Str(<< >>), Str(<< " ","\t" >>), Str(<< "a","i" >>), Str(<< "P","u","m","p"," ","R","e","p","a","i","r" >>),
    Str(<< "p","u","m","p"," ","r","e","p","a","i","r"," ","c","o","s","t"," ","p","l","a","n" >>), Str(<< "p","u","m","p"," "," ","b","u","d","g","e","t","\t","a","i"," ","o","n","e" >>),
    Str(<< "p","u","m","p"," ","r","e","p","a","i","r"," ","c","o","s","t"," ","b","u","d","g","e","t"," ","o","n","e"," ","t","w","o"," ","t","h","r","e","e"," ","f","o","u","r"," ","f","i","v","e"," ","s","i","x" >>) }

InitTopic ==
  /\ ResolverIdle
  /\ ServiceIdle
  /\ text \in TopicTexts
  /\ topic \in PreviousTopics
  /\ llmCalls = 0
  /\ completion = Null
  /\ answer = Null
  /\ apc = "idle"

SpecTopic == InitTopic /\ [][DetectTopicChange]_vars

HasTopic == topic.t = "str" /\ topic.s # << >>

SaysTopicChange == AnyMatch(ChangeIndicators, Lower(text))

\* The topic words that are words of the current text.
WordsRecurring ==
  LET topic_words == Split(Lower(topic.s))
      current_words == Range(Split(Lower(text)))
  IN  Cardinality({ k \in DOMAIN topic_words : topic_words[k] \in current_words })

\* The topic words that occur in the current text, inside a word or not.
WordsOccurring ==
  LET topic_words == Split(Lower(topic.s))
  IN  Cardinality({ k \in DOMAIN topic_words :
                      \E i \in 0..Len(text) : LitAt(Lower(text), i, topic_words[k]) })

TopicWordCount == Len(Split(topic.s))

\* ------------------------------------------------------------------------
\* C16 as claimed: without a previous topic the answer is false; otherwise
\* it is true exactly when the text contains a topic-change phrase or fewer
\* than 30% of the topic's words recur as words of the text.
\* ------------------------------------------------------------------------
TopicChangeWords ==
  apc = "detect_topic_change" =>
    answer = IF ~HasTopic THEN FALSE
             ELSE SaysTopicChange \/ 10 * WordsRecurring < 3 * TopicWordCount

\* C16 as amended: without a previous topic the answer is false; otherwise
\* it is true exactly when the text contains a topic-change phrase or fewer
\* than 30% of the topic's words occur in the lower-cased text as
\* substrings (10 * matches < 3 * number of topic words).
TopicChangeSubstrings ==
  apc = "detect_topic_change" =>
    answer = IF ~HasTopic THEN FALSE
             ELSE SaysTopicChange \/ 10 * WordsOccurring < 3 * TopicWordCount

\* Exactly 3 of 10 topic words occur: no change; and the topic "ai" occurs
\* inside "maintain": no change either.
TopicChangeWitness ==
  /\ apc = "detect_topic_change"
  /\ HasTopic /\ ~SaysTopicChange
  /\ \/ TopicWordCount = 10 /\ WordsOccurring = 3 /\ answer = FALSE
     \/ TopicWordCount = 1 /\ WordsRecurring = 0 /\ WordsOccurring = 1 /\ answer = FALSE

\* ------------------------------------------------------------------------
\* summarize_conversation and the summarization of a session
\* ------------------------------------------------------------------------

\* A session's buffer receives at most this many messages.
MaxAppends == 7

\* config["summary_threshold"]: int(os.getenv("SUMMARY_THRESHOLD", "5"))
SummaryThreshold == 5

\* The messages kept in the buffer when the older ones are summarized.
RetainedWindow == SummaryThreshold

UnableToGenerate == << "U","n","a","b","l","e"," ","t","o"," ","g","e","n","e","r","a","t","e"," ","s","u","m","m","a","r","y" >>

\* summarize_conversation(messages): the stripped content of the LLM's
\* answer; when the call raises or the content is None the except clause
\* returns the placeholder.  Nothing is raised to the caller.
SummarizeConversation(messages, r) ==
  IF r.k = "text" THEN [raised |-> FALSE, summary |-> Strip(r.s)]
  ELSE [raised |-> FALSE, summary |-> UnableToGenerate]

SummaryCompletions ==
  { LlmRaises, LlmNoContent, LlmText(<< " ","p","u","m","p","s"," ","a","n","d"," ","r","e","p","a","i","r","s","\n" >>), LlmText(<< "c","o","s","t","s" >>) }

\* A message of the buffer: its number in the session and its role.
BufferMessage(n, role) == [id |-> n, role |-> role]

\* The number the next message of the session gets.
NextMessageId(c) ==
  IF c.buffer = << >> THEN 1 ELSE c.buffer[Len(c.buffer)].id + 1

\* Memory store, append(session_id, message).
MemoryAppend ==
  /\ NextMessageId(cache) <= MaxAppends
  /\ \E role \in {"user", "assistant"} :
       cache' = [cache EXCEPT !.buffer = Append(@, BufferMessage(NextMessageId(cache), role))]
  /\ UNCHANGED << turns, backend, reply, progress, sse >>
  /\ UNCHANGED << resolverVars, analyzerVars >>

\* The oldest messages, beyond the retained window.
OldestMessages(buffer) ==
  IF Len(buffer) > RetainedWindow THEN SubSeq(buffer, 1, Len(buffer) - RetainedWindow)
  ELSE << >>

RetainedMessages(buffer) ==
  IF Len(buffer) > RetainedWindow
  THEN SubSeq(buffer, Len(buffer) - RetainedWindow + 1, Len(buffer))
  ELSE buffer

\* Memory store, the summarization of a session: the oldest messages are
\* condensed into context_summary and then evicted; when the summarizer
\* raises, the raw messages are retained.
SummarizationStep(c, r) ==
  LET s == SummarizeConversation(OldestMessages(c.buffer), r)
  IN  IF s.raised THEN c
      ELSE [c EXCEPT !.context_summary = Str(s.summary),
                     !.buffer = RetainedMessages(c.buffer)]

\* The summarization that an append beyond summary_threshold triggers.
BackgroundSummarization ==
  /\ Len(cache.buffer) > SummaryThreshold
  /\ \E r \in SummaryCompletions :
       /\ completion' = r
       /\ cache' = SummarizationStep(cache, r)
  /\ llmCalls' = llmCalls + 1
  /\ UNCHANGED << text, topic, answer, apc, turns, backend, reply, progress, sse >>
  /\ UNCHANGED resolverVars

\* POST /sessions/{session_id}/summarize: trigger_session_summarization.
TriggerSessionSummarization ==
  /\ reply = Null
  /\ IF OldestMessages(cache.buffer) = << >>
     THEN UNCHANGED << cache, completion, llmCalls >>
     ELSE /\ \E r \in SummaryCompletions :
               /\ completion' = r
               /\ cache' = SummarizationStep(cache, r)
          /\ llmCalls' = llmCalls + 1
  /\ reply' = [status |-> 200, message |-> "Summarization triggered"]
  /\ UNCHANGED << text, topic, answer, apc, turns, backend, progress, sse >>
  /\ UNCHANGED resolverVars

InitMemory ==
  /\ ResolverIdle
  /\ AnalyzerIdle
  /\ ServiceIdle

NextMemory == MemoryAppend \/ BackgroundSummarization \/ TriggerSessionSummarization

SpecMemory == InitMemory /\ [][NextMemory]_vars

Generated(content) == [k |-> "text", content |-> content]
GenerationRaised == [k |-> "raise", content |-> ""]

ConversationalAnswer == "answer of the conversational pipeline"
StandardAnswer == "answer of the standard RAG"
ServiceUnavailable ==
  "I apologize, but the response service is not available. Please try again later."
Apology ==
  "I apologize, but I encountered an error processing your request. Please try again."

\* The collaborators: CONVERSATIONAL_RAG_AVAILABLE; whether
\* get_conversational_rag_service raises; what process_conversational_query
\* does ("response": a result with a response, "error": a result of type
\* error, without one, "raise"); whether get_response_generator returns a
\* generator; what generate_professional_response does; and the user id
\* that auto_detect_user_id finds in the stored documents.
Backends ==
  [ available : BOOLEAN, service : {"ok", "raise"},
    turn : {"response", "error", "raise"}, generator : BOOLEAN,
    standard : {"ok", "raise"}, detected : {Anonymous, Bob} ]

\* A standard RAG that answers with the apology when the generator raises.
GenerateIntranestContentGuarded(be) ==
  IF ~be.generator THEN Generated(ServiceUnavailable)
  ELSE IF be.standard = "ok" THEN Generated(StandardAnswer) ELSE Generated(Apology)

\* generate_intranest_content
GenerateIntranestContent(be) ==
  IF ~be.generator THEN Generated(ServiceUnavailable)
  ELSE IF be.standard = "ok" THEN Generated(StandardAnswer) ELSE GenerationRaised

\* A conversational generator without the except clause.
GenerateConversationalContentNoFallback(be) ==
  IF ~be.available THEN GenerateIntranestContent(be)
  ELSE IF be.service = "ok" /\ be.turn = "response"
       THEN Generated(ConversationalAnswer)
       ELSE GenerationRaised

\* generate_conversational_content: result["response"] of the
\* conversational pipeline; every exception of the try block (the service
\* cannot be built, the query raises, the result has no "response") is
\* answered by generate_intranest_content.
GenerateConversationalContent(be) ==
  IF ~be.available THEN GenerateIntranestContent(be)
  ELSE IF be.service = "ok" /\ be.turn = "response"
       THEN Generated(ConversationalAnswer)
       ELSE GenerateIntranestContent(be)

\* analyze_conversation_context raises at content.lower() when a user
\* message holds a content that is not a string.
AnalyzeRaises(msgs) ==
  \E i \in DOMAIN msgs :
     /\ msgs[i].dict
     /\ DictGetDefault(msgs[i].role, Str(<< >>)) = UserRole
     /\ DictGetDefault(msgs[i].content, Str(<< >>)).t # "str"

\* for msg in reversed(messages): the content of the last user message that
\* has one, "Hello" without one; msg.get raises on an entry that is no dict.
RECURSIVE LastUserMessage(_, _)
LastUserMessage(msgs, i) ==
  IF i = 0 THEN [k |-> "text", content |-> Str(<< "H","e","l","l","o" >>)]
  ELSE IF ~msgs[i].dict THEN [k |-> "raise", content |-> Null]
  ELSE IF DictGet(msgs[i].role) = UserRole /\ Truthy(DictGet(msgs[i].content))
       THEN [k |-> "text", content |-> msgs[i].content]
       ELSE LastUserMessage(msgs, i - 1)

\* request_data.get("user_id", extracted_user_id), replaced by the detected
\* user id when it is 'anonymous'.
ProcessingUser(b, extracted, be) ==
  LET user_id == DictGetDefault(b.user_id, extracted)
  IN  IF user_id = Anonymous /\ be.detected # Anonymous THEN be.detected ELSE user_id

\* The except clause of the endpoint: the fixed apology completion.
ApologyCompletion ==
  [endpoint |-> "completions", status |-> 200, kind |-> "completion",
   content |-> Apology, error |-> TRUE, session_id |-> Null, user_id |-> Null,
   detail |-> << >>]

\* The body of the try block.
CompletionsReply(b, hdrs, now, zone, hex8, stream, be) ==
  LET session == ExtractSession(b, hdrs, now, zone, hex8)
      messages == MessagesOf(b)
      user_message == LastUserMessage(messages, Len(messages))
      generated == IF be.available THEN GenerateConversationalContent(be)
                   ELSE GenerateIntranestContent(be)
  IN  IF ~session.ok \/ AnalyzeRaises(messages) \/ user_message.k = "raise"
         \/ generated.k = "raise"
      THEN ApologyCompletion
      ELSE [endpoint |-> "completions", status |-> 200,
            kind |-> IF stream THEN "stream" ELSE "completion",
            content |-> generated.content, error |-> FALSE,
            session_id |-> session.sid,
            user_id |-> ProcessingUser(b, session.uid, be),
            detail |-> << >>]

ChatCompletionsWithStreaming ==
  /\ pc = "received"
  /\ reply = Null
  /\ \E hex8 \in UuidHex8, stream \in BOOLEAN :
       reply' = CompletionsReply(body, headers, clock, tz, hex8, stream, backend)
  /\ pc' = "done"
  /\ UNCHANGED << body, headers, clock, tz, result, earlier, backend, progress, sse >>
  /\ UNCHANGED << analyzerVars, memoryVars >>

CompletionBodies ==
  { NoKeys,
    [NoKeys EXCEPT !.user = Alice, !.messages = MessageList(<< UserMessage(ElevenChars) >>)],
    [NoKeys EXCEPT !.user_id = Str(<< "u","1" >>),
                   !.messages = MessageList(<< UserMessage(Hi), AssistantMessage(Hi) >>)],
    [NoKeys EXCEPT !.user = Alice,
                   !.messages = MessageList(<< UserMessage(Hi), Message(UserRole, NonStr) >>)],
    [NoKeys EXCEPT !.messages = MessageList(<< UserMessage(Hi), Message(UserRole, Null) >>)],
    [NoKeys EXCEPT !.messages = MessageList(<< UserMessage(Hi), NotADict >>)],
    [NoKeys EXCEPT !.session_id = Str(<< "s","1" >>),
                   !.messages = MessageList(<< NotADict, UserMessage(Hi) >>)] }

InitCompletions ==
  /\ AnalyzerIdle
  /\ body \in CompletionBodies
  /\ headers = << >>
  /\ clock = 0
  /\ tz \in TzOffsets
  /\ pc = "received"
  /\ result = NoResult
  /\ earlier = NoCall
  /\ cache = EmptyCache
  /\ turns = << >>
  /\ backend \in Backends
  /\ progress = NoUpload
  /\ sse = NoStream
  /\ reply = Null

SpecCompletions == InitCompletions /\ [][ChatCompletionsWithStreaming]_vars

\* The request is well-formed enough to reach the content generators.
ReachesGeneration ==
  /\ ExtractSession(body, headers, clock, tz, Rep("0", 8)).ok
  /\ ~AnalyzeRaises(MessagesOf(body))
  /\ LastUserMessage(MessagesOf(body), Len(MessagesOf(body))).k = "text"

ConversationalWorks ==
  backend.available /\ backend.service = "ok" /\ backend.turn = "response"

StandardWorks == backend.generator /\ backend.standard = "ok"

\* ------------------------------------------------------------------------
\* C18: chat_completions_with_streaming always returns a completion or a
\* stream that carries assistant content, and no exception leaves it; when
\* the conversational pipeline fails the content is the answer of the
\* standard RAG, and when that fails too it is the fixed apology.
\* ------------------------------------------------------------------------
AlwaysSomeResponse ==
  pc = "done" =>
    /\ reply.status = 200
    /\ reply.kind \in {"completion", "stream"}
    /\ reply.content # ""
    /\ ReachesGeneration /\ ConversationalWorks => reply.content = ConversationalAnswer
    /\ ReachesGeneration /\ ~ConversationalWorks /\ StandardWorks =>
         reply.content = StandardAnswer
    /\ ReachesGeneration /\ ~ConversationalWorks /\ backend.generator
         /\ backend.standard = "raise" => reply.content = Apology /\ reply.kind = "completion"

\* The conversational pipeline is available and its query raises: the
\* standard RAG answers; and both fail: the apology is returned.
AlwaysSomeResponseWitness ==
  /\ pc = "done"
  /\ backend.available /\ backend.service = "ok" /\ backend.turn \in {"raise", "error"}
  /\ \/ StandardWorks /\ reply.content = StandardAnswer
     \/ backend.generator /\ backend.standard = "raise" /\ reply.content = Apology

\* ------------------------------------------------------------------------
\* The conversational endpoints (api/conversational_chat.py)
\* ------------------------------------------------------------------------

\* str(e) of the exception a collaborator raised, and result["error"] of an
\* orchestrator result of type error.
ExceptionText == "text of the original exception"
ResultError == "error of the orchestrator result"
InternalServerError == "Internal Server Error"
UseStreamEndpoint == "Use /chat/conversational/stream for streaming responses"
NoMessagesProvided == "No messages provided"
NoUserMessageFound == "No user message found"

\* str(uuid.uuid4()): 8 random hex digits, the rest fixed here.
Uuid4(hex8) ==
  Str(hex8 \o << "-","0","0","0","0","-","4","0","0","0","-","8","0","0","0","-" >> \o Rep("0", 12))

\* raise HTTPException(status_code, detail)
HttpError(endpoint, status, detail) ==
  [endpoint |-> endpoint, status |-> status, kind |-> "error", content |-> "",
   events |-> << >>, detail |-> detail]

\* str(e) of an HTTPException: "<status>: <detail>" where HTTPException
\* defines __str__, the empty string where it does not.
HttpExceptionStr(status, detail, withStr) ==
  IF withStr THEN << status, ": ", detail >> ELSE << >>

\* except Exception as e: raise HTTPException(status_code=500, detail=str(e))
ReraiseAs500(endpoint, detail) == HttpError(endpoint, 500, detail)

\* The result of process_conversational_query, or the exception it raises.
TurnResult(be, stream) ==
  IF be.turn = "raise" THEN [type |-> "raise"]
  ELSE IF be.turn = "error" THEN [type |-> "error"]
  ELSE IF stream THEN [type |-> "stream"] ELSE [type |-> "response"]

\* The events of generate_sse_stream: metadata, the chunks, complete and
\* the [DONE] marker; an exception of the generator ends the stream with an
\* error event that carries str(e).
SseEvents(fails) ==
  IF fails THEN << "metadata", "chunk", "error" >>
  ELSE << "metadata", "chunk", "chunk", "complete", "[DONE]" >>

\* A dependency that raises is answered by the framework.
DependencyFailed(endpoint) == HttpError(endpoint, 500, << InternalServerError >>)

ConversationalChatReply(be, stream, withStr) ==
  LET ep == "conversational"
      r == TurnResult(be, stream)
  IN  IF be.service = "raise" THEN DependencyFailed(ep)
      ELSE IF r.type = "raise" THEN ReraiseAs500(ep, << ExceptionText >>)
      ELSE IF r.type = "error"
           THEN ReraiseAs500(ep, HttpExceptionStr("500", ResultError, withStr))
      ELSE IF r.type = "stream"
           THEN ReraiseAs500(ep, HttpExceptionStr("400", UseStreamEndpoint, withStr))
      ELSE [endpoint |-> ep, status |-> 200, kind |-> "response",
            content |-> ConversationalAnswer, events |-> << >>, detail |-> << >>]

\* POST /api/chat/conversational
ConversationalChat ==
  /\ pc = "received"
  /\ reply = Null
  /\ \E stream \in BOOLEAN, withStr \in BOOLEAN :
       reply' = ConversationalChatReply(backend, stream, withStr)
  /\ pc' = "done"
  /\ UNCHANGED << body, headers, clock, tz, result, earlier, backend, progress, sse >>
  /\ UNCHANGED << analyzerVars, memoryVars >>

ConversationalChatStreamReply(be, fails, withStr) ==
  LET ep == "conversational/stream"
      r == TurnResult(be, TRUE)
  IN  IF be.service = "raise" THEN DependencyFailed(ep)
      ELSE IF r.type = "raise" THEN ReraiseAs500(ep, << ExceptionText >>)
      ELSE IF r.type = "error"
           THEN ReraiseAs500(ep, HttpExceptionStr("500", ResultError, withStr))
      ELSE [endpoint |-> ep, status |-> 200, kind |-> "stream",
            content |-> IF fails THEN "" ELSE ConversationalAnswer,
            events |-> SseEvents(fails),
            detail |-> IF fails THEN << ExceptionText >> ELSE << >>]

\* POST /api/chat/conversational/stream
ConversationalChatStream ==
  /\ pc = "received"
  /\ reply = Null
  /\ \E fails \in BOOLEAN, withStr \in BOOLEAN :
       reply' = ConversationalChatStreamReply(backend, fails, withStr)
  /\ pc' = "done"
  /\ UNCHANGED << body, headers, clock, tz, result, earlier, backend, progress, sse >>
  /\ UNCHANGED << analyzerVars, memoryVars >>

\* for msg in reversed(messages): the content of the last user message,
\* None without one; msg.get raises on an entry that is no dict.
RECURSIVE LastUserContent(_, _)
LastUserContent(msgs, i) ==
  IF i = 0 THEN [k |-> "text", content |-> Null]
  ELSE IF ~msgs[i].dict THEN [k |-> "raise", content |-> Null]
  ELSE IF DictGet(msgs[i].role) = UserRole
       THEN [k |-> "text", content |-> DictGetDefault(msgs[i].content, Str(<< >>))]
       ELSE LastUserContent(msgs, i - 1)

ChatCompletionsCompatibilityReply(b, be, stream, withStr) ==
  LET ep == "compatibility"
      messages == MessagesOf(b)
      user_message == LastUserContent(messages, Len(messages))
      r == TurnResult(be, stream)
  IN  IF be.service = "raise" THEN DependencyFailed(ep)
      ELSE IF messages = << >>
           THEN ReraiseAs500(ep, HttpExceptionStr("400", NoMessagesProvided, withStr))
      ELSE IF user_message.k = "raise" THEN ReraiseAs500(ep, << ExceptionText >>)
      ELSE IF ~Truthy(user_message.content)
           THEN ReraiseAs500(ep, HttpExceptionStr("400", NoUserMessageFound, withStr))
      ELSE IF r.type = "raise" THEN ReraiseAs500(ep, << ExceptionText >>)
      ELSE IF r.type = "error"
           THEN ReraiseAs500(ep, HttpExceptionStr("500", ResultError, withStr))
      ELSE [endpoint |-> ep, status |-> 200,
            kind |-> IF stream THEN "stream" ELSE "response",
            content |-> ConversationalAnswer,
            events |-> IF stream THEN << "chunk", "chunk", "stop", "[DONE]" >> ELSE << >>,
            detail |-> << >>]

\* POST /api/chat/completions
ChatCompletionsCompatibility ==
  /\ pc = "received"
  /\ reply = Null
  /\ \E stream \in BOOLEAN, withStr \in BOOLEAN :
       reply' = ChatCompletionsCompatibilityReply(body, backend, stream, withStr)
  /\ pc' = "done"
  /\ UNCHANGED << body, headers, clock, tz, result, earlier, backend, progress, sse >>
  /\ UNCHANGED << analyzerVars, memoryVars >>

NextConversational ==
  ConversationalChat \/ ConversationalChatStream \/ ChatCompletionsCompatibility

\* The router is loaded: the conversational services could be imported.
InitConversational == InitCompletions /\ backend.available

SpecConversational == InitConversational /\ [][NextConversational]_vars

\* The turn failed: the orchestrator's result has type error, or a
\* collaborator raised, before the response or inside its stream.
TurnFailed ==
  \/ backend.service = "ok" /\ backend.turn \in {"error", "raise"}
       /\ ~(reply.endpoint = "compatibility" /\ reply.detail # << >>
              /\ reply.detail[Len(reply.detail)] \in {NoMessagesProvided, NoUserMessageFound})
  \/ backend.service = "raise"
  \/ "error" \in Range(reply.events)

\* ------------------------------------------------------------------------
\* C19: when a turn fails, the conversational endpoints answer with a
\* best-effort response: the turn does not end as an HTTP 500 and the text
\* of the original exception does not reach the caller.
\* ------------------------------------------------------------------------
DegradesToBestEffort ==
  pc = "done" /\ TurnFailed =>
    /\ reply.status # 500
    /\ ExceptionText \notin Range(reply.detail)

\* ------------------------------------------------------------------------
\* Concurrent turns of one session
\* ------------------------------------------------------------------------

\* The requests of the session that are processed at all.
MaxRequests == 4

\* The session the concurrent requests name.
SessionKey == << "s","1" >>

\* get_memory_manager: every call builds a MemoryManager of its own around
\* the shared cache client; the per-session locks of the store are state of
\* that object, and a new one holds none.
GetMemoryManager == [locks |-> {}]

\* get_conversational_rag_service: a service of its own per request, with
\* the memory manager built for it.
GetConversationalRagService == [memory_manager |-> GetMemoryManager]

\* Memory store, the per-session mutual-exclusion scope: the lock of a
\* session can be taken when the object does not hold it.
CanAcquire(mm, sid) == sid \notin mm.locks

Acquire(mm, sid) == [mm EXCEPT !.locks = @ \cup {sid}]

Release(mm, sid) == [mm EXCEPT !.locks = @ \ {sid}]

\* The turn starts: the request gets its service, the store takes the
\* session's lock and loads the conversation state from the cache.
StartTurn ==
  /\ Len(turns) < MaxRequests
  /\ LET rag_service == GetConversationalRagService
     IN  /\ CanAcquire(rag_service.memory_manager, SessionKey)
         /\ turns' = Append(turns,
              [memory_manager |-> Acquire(rag_service.memory_manager, SessionKey),
               pc |-> "loaded",
               state |-> [conversation_depth |-> cache.conversation_depth]])
  /\ UNCHANGED << cache, backend, reply, progress, sse >>
  /\ UNCHANGED << resolverVars, analyzerVars >>

\* Analysis, rewriting, retrieval and generation: external calls, at each of
\* which the turn is suspended and another may run.
GenerateTurn ==
  /\ \E i \in DOMAIN turns :
       /\ turns[i].pc = "loaded"
       /\ turns' = [turns EXCEPT ![i].pc = "generated"]
  /\ UNCHANGED << cache, backend, reply, progress, sse >>
  /\ UNCHANGED << resolverVars, analyzerVars >>

\* The turn is persisted: its two messages are appended to the buffer, the
\* state it loaded is written back with conversation_depth advanced, and
\* the lock is released.
PersistTurn ==
  /\ \E i \in DOMAIN turns :
       /\ turns[i].pc = "generated"
       /\ cache' = [cache EXCEPT
            !.buffer = @ \o << BufferMessage(NextMessageId(cache), "user"),
                               BufferMessage(NextMessageId(cache) + 1, "assistant") >>,
            !.conversation_depth = turns[i].state.conversation_depth + 1]
       /\ turns' = [turns EXCEPT ![i].pc = "done",
                                 ![i].memory_manager = Release(@, SessionKey)]
  /\ UNCHANGED << backend, reply, progress, sse >>
  /\ UNCHANGED << resolverVars, analyzerVars >>

NextTurns == StartTurn \/ GenerateTurn \/ PersistTurn

SpecTurns == InitMemory /\ [][NextTurns]_vars

CompletedTurns == {i \in DOMAIN turns : turns[i].pc = "done"}

MaxSummarizations == 2

\* A summarization starts, from POST /sessions/{session_id}/summarize
\* ("trigger") or from an append that crossed summary_threshold ("append").
\* Either request has the memory manager built for it; the store takes the
\* session's lock in it, reads the oldest messages and calls the LLM.
StartSummarization ==
  /\ Len(turns) < MaxSummarizations
  /\ \E origin \in {"trigger", "append"} :
       /\ origin = "append" => Len(cache.buffer) > SummaryThreshold
       /\ LET memory_manager == GetMemoryManager
          IN  /\ CanAcquire(memory_manager, SessionKey)
              /\ turns' = Append(turns,
                   [memory_manager |-> Acquire(memory_manager, SessionKey),
                    pc |-> "summarizing", origin |-> origin,
                    state |-> [conversation_depth |-> cache.conversation_depth]])
  /\ UNCHANGED << cache, backend, reply, progress, sse >>
  /\ UNCHANGED << resolverVars, analyzerVars >>

\* The LLM call of a summarization returns: the store records the summary,
\* evicts, and releases the lock.
FinishSummarization ==
  /\ \E i \in DOMAIN turns, r \in SummaryCompletions :
       /\ turns[i].pc = "summarizing"
       /\ completion' = r
       /\ cache' = SummarizationStep(cache, r)
       /\ turns' = [turns EXCEPT ![i].pc = "summarized",
                                 ![i].memory_manager = Release(@, SessionKey)]
  /\ llmCalls' = llmCalls + 1
  /\ UNCHANGED << text, topic, answer, apc, backend, reply, progress, sse >>
  /\ UNCHANGED resolverVars

NextSummarizations == MemoryAppend \/ StartSummarization \/ FinishSummarization

SpecSummarizations == InitMemory /\ [][NextSummarizations]_vars

InFlight == {i \in DOMAIN turns : turns[i].pc = "summarizing"}

FlushDb(c) == EmptyCache

\* POST /delete: the document's chunks are deleted from the vector store,
\* then, with a cache service that has a redis client, the whole cache
\* database is flushed.
DeleteDocument ==
  /\ reply = Null
  /\ \E cache_service \in BOOLEAN, chunks_deleted \in 0 .. 1 :
       /\ cache' = IF cache_service THEN FlushDb(cache) ELSE cache
       /\ reply' = [endpoint |-> "delete", status |-> 200, success |-> TRUE,
                    chunks_deleted |-> chunks_deleted]
  /\ UNCHANGED << turns, backend, progress, sse >>
  /\ UNCHANGED << resolverVars, analyzerVars >>

\* POST /admin/flush-cache
FlushCacheAdmin ==
  /\ reply = Null
  /\ \E cache_service \in BOOLEAN :
       /\ cache' = IF cache_service THEN FlushDb(cache) ELSE cache
       /\ reply' = [endpoint |-> "admin/flush-cache", status |-> 200,
                    success |-> cache_service, chunks_deleted |-> 0]
  /\ UNCHANGED << turns, backend, progress, sse >>
  /\ UNCHANGED << resolverVars, analyzerVars >>

\* Memory store, clear(session_id): all state of the session is deleted.
ClearSessionMemory(c) == EmptyCache

\* DELETE /sessions/{session_id}: delete_chat_session.
DeleteChatSession ==
  /\ reply = Null
  /\ cache' = ClearSessionMemory(cache)
  /\ reply' = [endpoint |-> "sessions/delete", status |-> 200, success |-> TRUE,
               chunks_deleted |-> 0]
  /\ UNCHANGED << turns, backend, progress, sse >>
  /\ UNCHANGED << resolverVars, analyzerVars >>

NextSessions ==
  \/ MemoryAppend
  \/ BackgroundSummarization
  \/ DeleteDocument
  \/ FlushCacheAdmin
  \/ DeleteChatSession

SpecSessions == InitMemory /\ [][NextSessions]_vars

\* ------------------------------------------------------------------------
\* C22: the stored state of a session is removed or reset only by the
\* explicit clear of that session (DELETE /sessions/{session_id}); no other
\* operation, deleting a document and the admin cache flush included, does.
\* ------------------------------------------------------------------------
OnlyClearRemovesMemory ==
  [][ cache # EmptyCache /\ cache' = EmptyCache
        => reply'.endpoint = "sessions/delete" ]_vars

\* ------------------------------------------------------------------------
\* Streaming responses and their cancellation
\* ------------------------------------------------------------------------

\* The longest response, in tokens or chunks.
MaxTokens == 3

\* The sessions as earlier turns left them: k turns recorded in full.
RECURSIVE RecordedTurns(_)
RecordedTurns(k) ==
  IF k = 0 THEN EmptyCache
  ELSE LET c == RecordedTurns(k - 1)
       IN  [c EXCEPT !.buffer = @ \o << BufferMessage(NextMessageId(c), "user"),
                                        BufferMessage(NextMessageId(c) + 1, "assistant") >>,
                     !.conversation_depth = @ + 1]

\* A streaming request arrives, at /completions of api/chat.py (with or
\* without the conversational pipeline) or at /api/chat/conversational/stream,
\* and the conversation state is loaded for it.
StreamRequest ==
  /\ turns = << >>
  /\ \E endpoint \in {"completions", "conversational/stream"},
        conversational \in BOOLEAN, n \in 2 .. MaxTokens :
       /\ endpoint = "conversational/stream" => conversational
       /\ turns' = << [endpoint |-> endpoint, conversational |-> conversational,
                       memory_manager |-> GetMemoryManager,
                       pc |-> "loaded", tokens |-> n, emitted |-> 0,
                       state |-> [conversation_depth |-> cache.conversation_depth]] >>
  /\ UNCHANGED << cache, backend, reply, progress, sse >>
  /\ UNCHANGED << resolverVars, analyzerVars >>

\* /completions: generate_conversational_content (or the standard RAG)
\* returns the whole response text; the standard RAG keeps no memory.
GenerateContent ==
  /\ \E i \in DOMAIN turns :
       /\ turns[i].endpoint = "completions"
       /\ turns[i].pc = "loaded"
       /\ turns' = [turns EXCEPT ![i].pc =
                      IF turns[i].conversational THEN "assembled" ELSE "processed"]
  /\ UNCHANGED << cache, backend, reply, progress, sse >>
  /\ UNCHANGED << resolverVars, analyzerVars >>

\* A streamed /completions response may emit a token before the turn is
\* processed.
CanEmitTokenEarly(t) ==
  t.endpoint = "completions" /\ t.pc \in {"loaded", "assembled", "user_recorded", "assistant_recorded", "processed"}

\* /completions: event_generator runs over response_content, which the
\* handler has in hand only when the turn is processed.
CanEmitToken(t) == t.endpoint = "completions" /\ t.pc = "processed"

\* /conversational/stream: generate_sse_stream sends the chunks as the
\* orchestrator's generator yields them.
CanEmitChunk(t) == t.endpoint = "conversational/stream" /\ t.pc = "loaded"

\* One token or chunk is sent; with the last chunk of the orchestrator's
\* generator the response is assembled.
EmitToken ==
  /\ \E i \in DOMAIN turns :
       /\ CanEmitToken(turns[i]) \/ CanEmitChunk(turns[i])
       /\ turns[i].emitted < turns[i].tokens
       /\ turns' = [turns EXCEPT
            ![i].emitted = @ + 1,
            ![i].pc = IF CanEmitChunk(turns[i]) /\ turns[i].emitted + 1 = turns[i].tokens
                      THEN "assembled" ELSE @]
  /\ UNCHANGED << cache, backend, reply, progress, sse >>
  /\ UNCHANGED << resolverVars, analyzerVars >>

\* Orchestrator, PERSISTING: once the full response is assembled the user
\* message, the assistant message and the advanced state are written, each
\* by a call to the store.
PersistMessage ==
  /\ \E i \in DOMAIN turns :
       \/ /\ turns[i].pc = "assembled"
          /\ cache' = [cache EXCEPT !.buffer = Append(@, BufferMessage(NextMessageId(cache), "user"))]
          /\ turns' = [turns EXCEPT ![i].pc = "user_recorded"]
       \/ /\ turns[i].pc = "user_recorded"
          /\ cache' = [cache EXCEPT !.buffer = Append(@, BufferMessage(NextMessageId(cache), "assistant"))]
          /\ turns' = [turns EXCEPT ![i].pc = "assistant_recorded"]
       \/ /\ turns[i].pc = "assistant_recorded"
          /\ cache' = [cache EXCEPT !.conversation_depth = turns[i].state.conversation_depth + 1]
          /\ turns' = [turns EXCEPT ![i].pc = "processed"]
  /\ UNCHANGED << backend, reply, progress, sse >>
  /\ UNCHANGED << resolverVars, analyzerVars >>

\* The stream ends: the final chunk (the complete event) and [DONE].
CloseStream ==
  /\ \E i \in DOMAIN turns :
       /\ turns[i].pc = "processed"
       /\ turns[i].emitted = turns[i].tokens
       /\ turns' = [turns EXCEPT ![i].pc = "closed"]
  /\ UNCHANGED << cache, backend, reply, progress, sse >>
  /\ UNCHANGED << resolverVars, analyzerVars >>

\* The client goes away between the first and the last chunk: the
\* streaming task is cancelled where it stands.
CancelStream ==
  /\ \E i \in DOMAIN turns :
       /\ turns[i].pc \notin {"closed", "cancelled"}
       /\ 1 <= turns[i].emitted
       /\ turns[i].emitted < turns[i].tokens
       /\ turns' = [turns EXCEPT ![i].pc = "cancelled"]
  /\ UNCHANGED << cache, backend, reply, progress, sse >>
  /\ UNCHANGED << resolverVars, analyzerVars >>

InitStream ==
  /\ ResolverIdle
  /\ AnalyzerIdle
  /\ cache \in {RecordedTurns(k) : k \in 0 .. 2}
  /\ turns = << >>
  /\ backend = Null
  /\ progress = NoUpload
  /\ sse = NoStream
  /\ reply = Null

NextStream ==
  \/ StreamRequest
  \/ GenerateContent
  \/ EmitToken
  \/ PersistMessage
  \/ CloseStream
  \/ CancelStream

SpecStream == InitStream /\ [][NextStream]_vars

\* The messages of the turn that are in the buffer.
MessagesRecorded(t) == Len(cache.buffer) - 2 * t.state.conversation_depth

AliceUser == Str(<< "a","l","i","c","e" >>)

WhatIsTcs == << "W","h","a","t"," ","i","s"," ","T","C","S","?" >>
HowCanItImprove == << "H","o","w"," ","c","a","n"," ","i","t"," ","i","m","p","r","o","v","e","?" >>

\* The first requests: a user and a first message, no session id.
ScenarioBodies ==
  { [NoKeys EXCEPT !.user = u, !.messages = MessageList(<< UserMessage(m) >>)] :
      u \in {AliceUser, Bob}, m \in {WhatIsTcs, << "E","x","p","l","a","i","n"," ","t","h","e"," ","T","C","S"," ","r","o","a","d","m","a","p" >>} }

\* conversational_chat: request.session_id, str(uuid.uuid4()) without one.
RequestSessionId(b, hex8) ==
  IF Truthy(DictGet(b.session_id)) THEN b.session_id ELSE Uuid4(hex8)

\* The session a turn is processed in: /completions of api/chat.py asks
\* extract_session_from_request, /api/chat/conversational takes the request's
\* session_id.
TurnSession(endpoint, b, hdrs, now, zone, hex8) ==
  IF endpoint = "completions" THEN ExtractSession(b, hdrs, now, zone, hex8)
  ELSE Returned(RequestSessionId(b, hex8), DictGet(b.user), FALSE, "request")

\* One turn: the session is resolved and the user's message is analyzed
\* by classify_intent.
ScenarioTurn ==
  /\ pc = "received"
  /\ \E endpoint \in {"completions", "conversational"}, hex8 \in UuidHex8 :
       LET message == LastUserMessage(MessagesOf(body), Len(MessagesOf(body))).content.s
           rule == RuleIntent(Lower(message), 1)
           session == TurnSession(endpoint, body, headers, clock, tz, hex8)
       IN  /\ result' = session
           /\ text' = message
           /\ IF rule # ""
              THEN /\ answer' = rule
                   /\ UNCHANGED << llmCalls, completion >>
              ELSE \E r \in IntentCompletions :
                     /\ completion' = r
                     /\ llmCalls' = llmCalls + 1
                     /\ answer' = LlmIntent(r)
           /\ reply' = [endpoint |-> endpoint, status |-> 200, session_id |-> session.sid]
  /\ pc' = "done"
  /\ apc' = "classify_intent"
  /\ UNCHANGED << body, headers, clock, tz, earlier, topic, backend, progress, sse >>
  /\ UNCHANGED memoryVars

\* The client sends the next message of the conversation with the session
\* id it was given.
FollowUp ==
  /\ pc = "done"
  /\ ~earlier.set
  /\ result.ok
  /\ earlier' = ThisCall
  /\ \E m \in {HowCanItImprove, << "t","e","l","l"," ","m","e"," ","m","o","r","e" >>} :
       body' = [body EXCEPT
                  !.session_id = result.sid,
                  !.messages = MessageList(@.items \o << AssistantMessage(Hi), UserMessage(m) >>)]
  /\ pc' = "received"
  /\ apc' = "idle"
  /\ UNCHANGED << headers, clock, tz, result, text, topic, llmCalls, completion, answer,
                  backend, reply, progress, sse >>
  /\ UNCHANGED memoryVars

InitScenario == InitWith(ScenarioBodies, {<< >>})

NextScenario == ScenarioTurn \/ FollowUp \/ Tick

SpecScenario == InitScenario /\ [][NextScenario]_vars

\* conv_alice_ and eight hexadecimal characters.
IsConvAliceId(v) ==
  /\ v.t = "str"
  /\ Len(v.s) = 19
  /\ SubSeq(v.s, 1, 11) = << "c","o","n","v","_","a","l","i","c","e","_" >>
  /\ \A i \in 12 .. 19 : v.s[i] \in Range(HexChars)

\* ------------------------------------------------------------------------
\* C24: the first turn of alice, "What is TCS?" with no session id, gets a
\* session id conv_alice_<8 hex> and the intent definition; the second
\* turn, "How can it improve?" with that session id, is processed in the
\* same session with the intent improvement.
\* ------------------------------------------------------------------------
EndToEndScenario ==
  /\ pc = "done" /\ ~earlier.set /\ body.user = AliceUser /\ text = WhatIsTcs =>
       /\ result.ok
       /\ IsConvAliceId(result.sid)
       /\ answer = "definition"
  /\ pc = "done" /\ earlier.set /\ text = HowCanItImprove =>
       /\ result.ok
       /\ result.sid = earlier.result.sid
       /\ answer = "improvement"

\* The request to the compatibility endpoint has no messages, or its last
\* user message is missing or empty.
NoMessagesInBody == MessagesOf(body) = << >>

NoUserMessageInBody ==
  /\ MessagesOf(body) # << >>
  /\ LastUserContent(MessagesOf(body), Len(MessagesOf(body))).k = "text"
  /\ ~Truthy(LastUserContent(MessagesOf(body), Len(MessagesOf(body))).content)

\* ------------------------------------------------------------------------
\* C25: client errors of the conversational endpoints are answered with
\* status 400: no messages or no user message at /api/chat/completions, and
\* a stream result at /api/chat/conversational.
\* ------------------------------------------------------------------------
ClientErrorsAre400 ==
  pc = "done" /\ backend.service = "ok" =>
    /\ reply.endpoint = "compatibility" /\ (NoMessagesInBody \/ NoUserMessageInBody) =>
         reply.status = 400
    /\ reply.endpoint = "conversational" /\ UseStreamEndpoint \in Range(reply.detail) =>
         reply.status = 400

\* ------------------------------------------------------------------------
\* Document upload and its progress (api/documents.py)
\* ------------------------------------------------------------------------

\* A document is cut into at most this many chunks.
MaxChunks == 4

\* cache_service.update_progress(document_id, status, progress, message)
UpdateProgress(up, status, value) ==
  [up EXCEPT !.writes = Append(@, [status |-> status, progress |-> value])]

\* The except clauses: process_document_with_enhanced_extraction writes the
\* error status and re-raises, the endpoint writes it again and answers
\* with success False.
ProcessingFailed(up) ==
  [UpdateProgress(UpdateProgress(up, "error", 0), "error", 0) EXCEPT !.pc = "failed"]

UploadFailedReply == [endpoint |-> "upload", status |-> 200, success |-> FALSE]

\* POST /upload, to the start of the text extraction: the services and the
\* file are checked, then initializing 5, reading 15, saving 25 and
\* extracting_text 30 are written.
UploadDocument ==
  /\ progress.pc = "idle"
  /\ \E check \in {"ok", "no_service", "too_large", "bad_type"} :
       IF check = "ok"
       THEN /\ progress' = [UpdateProgress(UpdateProgress(UpdateProgress(UpdateProgress(
                               progress, "initializing", 5), "reading", 15), "saving", 25),
                               "extracting_text", 30) EXCEPT !.pc = "extracting"]
            /\ UNCHANGED reply
       ELSE /\ progress' = [progress EXCEPT !.pc = "rejected"]
            /\ reply' = [endpoint |-> "upload",
                         status |-> IF check = "no_service" THEN 503 ELSE 400,
                         success |-> FALSE]
  /\ UNCHANGED << sse, backend, resolverVars, analyzerVars, memoryVars >>

\* document_processor.process_file returns the text; a text with something
\* readable is followed by text_extracted 60.
ExtractText ==
  /\ progress.pc = "extracting"
  /\ \E outcome \in {"text", "blank", "raise"} :
       IF outcome = "text"
       THEN /\ progress' = [UpdateProgress(progress, "text_extracted", 60) EXCEPT !.pc = "chunking"]
            /\ UNCHANGED reply
       ELSE /\ progress' = ProcessingFailed(progress)
            /\ reply' = UploadFailedReply
  /\ UNCHANGED << sse, backend, resolverVars, analyzerVars, memoryVars >>

\* create_chunks_with_progress(..., progress_start = 60): chunking at
\* progress_start, chunks_created at progress_start + 15; no chunk at all
\* fails the upload.
CreateChunks ==
  /\ progress.pc = "chunking"
  /\ \E n \in 0 .. MaxChunks :
       LET chunked == UpdateProgress(UpdateProgress(progress, "chunking", 60),
                                     "chunks_created", 60 + 15)
       IN  IF n > 0
           THEN /\ progress' = [chunked EXCEPT !.pc = "storing", !.total_chunks = n]
                /\ UNCHANGED reply
           ELSE /\ progress' = ProcessingFailed(chunked)
                /\ reply' = UploadFailedReply
  /\ UNCHANGED << sse, backend, resolverVars, analyzerVars, memoryVars >>

\* progress_start + int(((i + 1) / total_chunks) * 35)
StorageProgress(progress_start, i, total_chunks) ==
  progress_start + (((i + 1) * 35) \div total_chunks)

\* store_chunks_with_progress(..., progress_start = 75), one chunk: the
\* insert succeeds and the progress is written, or it raises and the chunk
\* is passed over.
StoreChunk ==
  /\ progress.pc = "storing"
  /\ progress.i < progress.total_chunks
  /\ \E stored \in BOOLEAN :
       progress' =
         IF stored
         THEN [UpdateProgress(progress, "storing",
                              StorageProgress(75, progress.i, progress.total_chunks))
                 EXCEPT !.i = @ + 1, !.success_count = @ + 1]
         ELSE [progress EXCEPT !.i = @ + 1]
  /\ UNCHANGED << sse, backend, reply, resolverVars, analyzerVars, memoryVars >>

\* After the last chunk: finalizing 95, unless no chunk was stored.
Finalize ==
  /\ progress.pc = "storing"
  /\ progress.i = progress.total_chunks
  /\ IF progress.success_count > 0
     THEN /\ progress' = [UpdateProgress(progress, "finalizing", 95) EXCEPT !.pc = "finalizing"]
          /\ UNCHANGED reply
     ELSE /\ progress' = ProcessingFailed(progress)
          /\ reply' = UploadFailedReply
  /\ UNCHANGED << sse, backend, resolverVars, analyzerVars, memoryVars >>

\* Step 5 of the endpoint: completed 100 and the response.
CompleteUpload ==
  /\ progress.pc = "finalizing"
  /\ progress' = [UpdateProgress(progress, "completed", 100) EXCEPT !.pc = "completed"]
  /\ reply' = [endpoint |-> "upload", status |-> 200, success |-> TRUE]
  /\ UNCHANGED << sse, backend, resolverVars, analyzerVars, memoryVars >>

InitUpload ==
  /\ ResolverIdle
  /\ AnalyzerIdle
  /\ cache = EmptyCache
  /\ turns = << >>
  /\ backend = Null
  /\ progress = NoUpload
  /\ sse = NoStream
  /\ reply = Null

NextUpload ==
  \/ UploadDocument
  \/ ExtractText
  \/ CreateChunks
  \/ StoreChunk
  \/ Finalize
  \/ CompleteUpload

SpecUpload == InitUpload /\ [][NextUpload]_vars

\* The last progress written with the status.
LastWritten(status) ==
  LET ws == progress.writes
      at == {k \in DOMAIN ws : ws[k].status = status}
  IN  ws[CHOOSE k \in at : \A j \in at : j <= k].progress

\* ------------------------------------------------------------------------
\* C26: over a successful upload the progress values written never
\* decrease and stay within 0..100; text extraction ends at 60, chunking at
\* 75, chunk storage stays within 75..95 for every number of chunks,
\* finalizing is 95 and completion 100.
\* ------------------------------------------------------------------------
UploadProgressMonotone ==
  progress.pc = "completed" =>
    LET ws == progress.writes
    IN  /\ \A k \in DOMAIN ws : ws[k].progress \in 0 .. 100
        /\ \A k \in DOMAIN ws : k > 1 => ws[k - 1].progress <= ws[k].progress
        /\ \A k \in DOMAIN ws : ws[k].status = "storing" => ws[k].progress \in 75 .. 95
        /\ LastWritten("text_extracted") = 60
        /\ LastWritten("chunks_created") = 75
        /\ LastWritten("finalizing") = 95
        /\ LastWritten("completed") = 100

\* ------------------------------------------------------------------
\* The event stream of /api/chat/conversational/stream
\* (api/conversational_chat.py, generate_sse_stream)

MaxStreamChunks == 3

\* What result["generator"] may yield: words, a space, an empty string.
StreamChunks == { << "H","i" >>, << " " >>, << >>, << "a","l","l" >> }

GeneratorOutputs == UNION { [1 .. n -> StreamChunks] : n \in 0 .. MaxStreamChunks }

SseEvent(type, content) == [type |-> type, content |-> content]

\* A mistaken accumulation: the last chunk only.
AccumulateLast(full_response, chunk) == chunk

\* full_response += chunk
Accumulate(full_response, chunk) == full_response \o chunk

\* The generator object is created and sends the metadata first; it will
\* yield the chunks and then either stop or raise.
SendMetadata ==
  /\ sse.pc = "idle"
  /\ \E chunks \in GeneratorOutputs, raises \in BOOLEAN :
       sse' = [pc |-> "streaming",
               events |-> << SseEvent("metadata", << >>) >>,
               pending |-> chunks, sent |-> << >>,
               full_response |-> << >>, raised |-> raises]
  /\ UNCHANGED << backend, reply, progress, resolverVars, analyzerVars, memoryVars >>

\* async for chunk in result["generator"]: one chunk event per chunk.
SendChunk ==
  /\ sse.pc = "streaming"
  /\ sse.pending # << >>
  /\ LET chunk == Head(sse.pending)
     IN  sse' = [sse EXCEPT !.events = Append(@, SseEvent("chunk", chunk)),
                            !.pending = Tail(@),
                            !.sent = Append(@, chunk),
                            !.full_response = Accumulate(@, chunk)]
  /\ UNCHANGED << backend, reply, progress, resolverVars, analyzerVars, memoryVars >>

\* The generator raises: except Exception sends the error event, and the
\* function ends.
SendError ==
  /\ sse.pc = "streaming"
  /\ sse.pending = << >>
  /\ sse.raised
  /\ sse' = [sse EXCEPT !.events = Append(@, SseEvent("error", << ExceptionText >>)),
                        !.pc = "closed"]
  /\ UNCHANGED << backend, reply, progress, resolverVars, analyzerVars, memoryVars >>

\* The generator is exhausted: the completion event.
SendComplete ==
  /\ sse.pc = "streaming"
  /\ sse.pending = << >>
  /\ ~sse.raised
  /\ sse' = [sse EXCEPT !.events = Append(@, SseEvent("complete", sse.full_response)),
                        !.pc = "completing"]
  /\ UNCHANGED << backend, reply, progress, resolverVars, analyzerVars, memoryVars >>

\* yield "data: [DONE]\n\n"
SendDone ==
  /\ sse.pc = "completing"
  /\ sse' = [sse EXCEPT !.events = Append(@, SseEvent("[DONE]", << >>)),
                        !.pc = "closed"]
  /\ UNCHANGED << backend, reply, progress, resolverVars, analyzerVars, memoryVars >>

InitSse ==
  /\ ResolverIdle
  /\ AnalyzerIdle
  /\ ServiceIdle

NextSse == SendMetadata \/ SendChunk \/ SendError \/ SendComplete \/ SendDone

SpecSse == InitSse /\ [][NextSse]_vars

\* The contents of the chunk events before position k, concatenated.
RECURSIVE ChunkContentBefore(_, _)
ChunkContentBefore(ev, k) ==
  IF k <= 1 THEN << >>
  ELSE ChunkContentBefore(ev, k - 1)
         \o (IF ev[k - 1].type = "chunk" THEN ev[k - 1].content ELSE << >>)

EventsOfType(type) == { k \in DOMAIN sse.events : sse.events[k].type = type }

\* C27: the stream starts with exactly one metadata event, then has one
\* chunk event per chunk taken from the generator, in generator order,
\* then exactly one complete event whose full_response is the
\* concatenation of the chunk contents sent before it, then [DONE] as the
\* last event; when the generator raises, an error event follows the
\* chunks already sent and there is no complete event.
SseEventOrder ==
  LET ev == sse.events
      n == Len(ev)
  IN  sse.pc # "idle" =>
        /\ EventsOfType("metadata") = {1}
        /\ Cardinality(EventsOfType("chunk")) = Len(sse.sent)
        /\ \A k \in EventsOfType("chunk") :
             /\ k - 1 \in DOMAIN sse.sent
             /\ ev[k].content = sse.sent[k - 1]
        /\ \A k \in EventsOfType("complete") :
             /\ k = Len(sse.sent) + 2
             /\ sse.pending = << >>
             /\ ev[k].content = ChunkContentBefore(ev, k)
        /\ \A k \in EventsOfType("[DONE]") :
             /\ k = n
             /\ k - 1 \in EventsOfType("complete")
        /\ \A k \in EventsOfType("error") :
             /\ k = n
             /\ k = Len(sse.sent) + 2
             /\ EventsOfType("complete") = {}
        /\ sse.pc = "closed" =>
             /\ sse.pending = << >>
             /\ ev[n].type = (IF sse.raised THEN "error" ELSE "[DONE]")

SseEventOrderWitness ==
  /\ sse.pc = "closed"
  /\ sse.events[Len(sse.events)].type = "[DONE]"
  /\ sse.sent = << << "H","i" >>, << " " >>, << "a","l","l" >> >>
  /\ sse.events[5].content = << "H","i"," ","a","l","l" >>

\* ------------------------------------------------------------------
\* Token streaming of /completions (utils/text_processing.py
\* generate_tokens, api/chat.py event_generator)

MaxTextLen == 4

\* Response texts: a letter, the full stop and the space, in any order.
TextChars == { "A", ".", " " }

ResponseTexts == UNION { [1 .. n -> TextChars] : n \in 0 .. MaxTextLen }

\* str.split(sep) with a separator: the pieces between the occurrences of
\* sep, found from the left without overlap; empty pieces are kept.
RECURSIVE SplitSepFrom(_, _, _, _)
SplitSepFrom(s, sep, start, i) ==
  IF i + Len(sep) - 1 > Len(s) THEN << SubSeq(s, start, Len(s)) >>
  ELSE IF SubSeq(s, i, i + Len(sep) - 1) = sep
       THEN << SubSeq(s, start, i - 1) >>
              \o SplitSepFrom(s, sep, i + Len(sep), i + Len(sep))
       ELSE SplitSepFrom(s, sep, start, i + 1)

SplitSep(s, sep) == SplitSepFrom(s, sep, 1, 1)

\* The tokens of sentence i: ". " is put back behind every sentence but the
\* last, the sentence is split at the spaces, and every word but the very
\* first of the text is yielded behind a space.
SentenceTokens(sentences, i) ==
  LET sentence == IF i < Len(sentences) THEN sentences[i] \o << ".", " " >>
                  ELSE sentences[i]
      words == SplitSep(sentence, << " " >>)
  IN  [j \in 1 .. Len(words) |->
         IF j = 1 /\ i = 1 THEN words[j] ELSE << " " >> \o words[j]]

RECURSIVE TokensUpTo(_, _)
TokensUpTo(sentences, i) ==
  IF i = 0 THEN << >>
  ELSE TokensUpTo(sentences, i - 1) \o SentenceTokens(sentences, i)

\* generate_tokens(text): the tokens in the order yielded.
GenerateTokens(s) ==
  LET sentences == SplitSep(s, << ".", " " >>)
  IN  TokensUpTo(sentences, Len(sentences))

\* What a client assembles from the tokens.
RECURSIVE ConcatTokens(_)
ConcatTokens(tokens) ==
  IF tokens = << >> THEN << >> ELSE Head(tokens) \o ConcatTokens(Tail(tokens))

\* f"chatcmpl-{timestamp}-{uuid.uuid4().hex[:8]}": the random part.
CompletionIds == { Rep("0", 8), Rep("f", 8) }

StreamSessionIds == { "conv_alice_0", "conv_bob_0" }

ContentChunk(id, session_id, token) ==
  [type |-> "chunk", id |-> id, session_id |-> session_id,
   content |-> Str(token), finish_reason |-> Null]

FinalChunk(id, session_id) ==
  [type |-> "chunk", id |-> id, session_id |-> session_id,
   content |-> Absent, finish_reason |-> Str(<< "s","t","o","p" >>)]

DoneMarker == [type |-> "[DONE]"]

\* A handler that sends nothing.
OnStreamingErrorSilent(events) == events

\* except Exception: the marker is all that is sent.
OnStreamingError(events) == Append(events, DoneMarker)

\* event_generator starts: the id is drawn once, the tokens are those of
\* the response content generated before.
StartEventGenerator ==
  /\ sse.pc = "idle"
  /\ \E content \in ResponseTexts, id \in CompletionIds, sid \in StreamSessionIds :
       sse' = [pc |-> "streaming", events |-> << >>,
               pending |-> GenerateTokens(content), sent |-> << >>,
               response_content |-> content,
               completion_id |-> id, session_id |-> sid, raised |-> FALSE]
  /\ UNCHANGED << backend, reply, progress, resolverVars, analyzerVars, memoryVars >>

\* for token in generate_tokens(response_content): one chunk per token.
SendToken ==
  /\ sse.pc = "streaming"
  /\ sse.pending # << >>
  /\ LET token == Head(sse.pending)
     IN  sse' = [sse EXCEPT
                   !.events = Append(@, ContentChunk(sse.completion_id, sse.session_id, token)),
                   !.pending = Tail(@),
                   !.sent = Append(@, token)]
  /\ UNCHANGED << backend, reply, progress, resolverVars, analyzerVars, memoryVars >>

\* The final chunk, behind the last token.
SendFinalChunk ==
  /\ sse.pc = "streaming"
  /\ sse.pending = << >>
  /\ sse' = [sse EXCEPT
               !.events = Append(@, FinalChunk(sse.completion_id, sse.session_id)),
               !.pc = "stopping"]
  /\ UNCHANGED << backend, reply, progress, resolverVars, analyzerVars, memoryVars >>

\* yield "data: [DONE]\n\n" at the end of the try block.
SendDoneMarker ==
  /\ sse.pc = "stopping"
  /\ sse' = [sse EXCEPT !.events = Append(@, DoneMarker), !.pc = "closed"]
  /\ UNCHANGED << backend, reply, progress, resolverVars, analyzerVars, memoryVars >>

\* Producing or encoding the next chunk raises: the except branch.
StreamingError ==
  /\ sse.pc = "streaming"
  /\ sse' = [sse EXCEPT !.events = OnStreamingError(@), !.pc = "closed",
                        !.raised = TRUE]
  /\ UNCHANGED << backend, reply, progress, resolverVars, analyzerVars, memoryVars >>

InitEvents ==
  /\ ResolverIdle
  /\ AnalyzerIdle
  /\ ServiceIdle

NextEvents ==
  \/ StartEventGenerator
  \/ SendToken
  \/ SendFinalChunk
  \/ SendDoneMarker
  \/ StreamingError

SpecEvents == InitEvents /\ [][NextEvents]_vars

IsContentChunk(ev) == ev.type = "chunk" /\ ev.content # Absent

IsStopChunk(ev) == ev.type = "chunk" /\ ev.finish_reason = Str(<< "s","t","o","p" >>)

\* C28: a closed stream ends with the [DONE] marker, sent once and last,
\* also after an exception; at most one chunk has finish_reason "stop",
\* and it comes behind every content chunk; every content chunk has
\* finish_reason null and the completion id and session id of the stream.
StreamTerminates ==
  LET ev == sse.events
      n == Len(ev)
      stops == { k \in 1 .. n : IsStopChunk(ev[k]) }
      contents == { k \in 1 .. n : IsContentChunk(ev[k]) }
      dones == { k \in 1 .. n : ev[k] = DoneMarker }
  IN  /\ sse.pc = "closed" => dones = {n} /\ n >= 1
      /\ sse.pc # "closed" => dones = {}
      /\ Cardinality(stops) <= 1
      /\ \A k \in stops : /\ sse.pending = << >>
                          /\ \A j \in contents : j < k
                          /\ Cardinality(contents) = Len(GenerateTokens(sse.response_content))
      /\ \A k \in contents : /\ ev[k].finish_reason = Null
                             /\ ev[k].id = sse.completion_id
                             /\ ev[k].session_id = sse.session_id
      /\ \A j \in contents, k \in contents \cup stops :
           ev[j].id = ev[k].id /\ ev[j].session_id = ev[k].session_id

StreamTerminatesWitness ==
  /\ sse.pc = "closed"
  /\ sse.raised
  /\ Len(sse.events) = 3
  /\ sse.pending # << >>

RECURSIVE AssembledContent(_)
AssembledContent(ev) ==
  IF ev = << >> THEN << >>
  ELSE (IF IsContentChunk(Head(ev)) THEN Head(ev).content.s ELSE << >>)
         \o AssembledContent(Tail(ev))

\* C29: the tokens of a text, concatenated in order, are the text; the
\* content assembled from a complete stream is the response content a
\* non-streaming client receives.
TokensLossless ==
  sse.pc # "idle" =>
    /\ ConcatTokens(GenerateTokens(sse.response_content)) = sse.response_content
    /\ (sse.pc = "closed" /\ ~sse.raised) =>
         AssembledContent(sse.events) = sse.response_content

\* ------------------------------------------------------------------
\* The user a request is processed for (api/chat.py auto_detect_user_id
\* and its two callers)

MaxDocuments == 3

\* The user_id property of the stored documents, in the order fetched.
DocumentOwners == { Anonymous, Alice, Bob }

DocumentStores == UNION { [1 .. n -> DocumentOwners] : n \in 0 .. MaxDocuments }

\* user_counts[obj_user_id]
UserCount(docs, u) == Cardinality({ k \in DOMAIN docs : docs[k] = u })

\* The place of the key in user_counts: that of the user's first document.
FirstDocument(docs, u) ==
  CHOOSE k \in DOMAIN docs : docs[k] = u /\ \A j \in 1 .. k - 1 : docs[j] # u

\* auto_detect_user_id(): the most common user id of the documents that
\* is neither empty nor 'anonymous', the first such key on a tie;
\* 'anonymous' without one.
AutoDetectUserId(docs) ==
  LET counted == { docs[k] : k \in DOMAIN docs } \ { Anonymous, Str(<< >>) }
  IN  IF counted = {} THEN Anonymous
      ELSE CHOOSE u \in counted :
             \A v \in counted \ {u} :
               \/ UserCount(docs, u) > UserCount(docs, v)
               \/ /\ UserCount(docs, u) = UserCount(docs, v)
                  /\ FirstDocument(docs, u) < FirstDocument(docs, v)

\* The collaborators together with the documents stored; what is detected
\* is what auto_detect_user_id computes from them.
BackendsWithDocuments ==
  { [available |-> b.available, service |-> b.service, turn |-> b.turn,
     generator |-> b.generator, standard |-> b.standard,
     detected |-> AutoDetectUserId(docs), documents |-> docs] :
      b \in Backends, docs \in DocumentStores }

\* POST /rag: RAGRequest.user_id is 'anonymous' unless given, and is
\* replaced by the detected user id when it is 'anonymous'.
RagUser(b, be) ==
  LET user_id == DictGetDefault(b.user_id, Anonymous)
  IN  IF user_id = Anonymous /\ be.detected # Anonymous THEN be.detected ELSE user_id

QueryIsRequired == "query is required"
DocumentServiceNotAvailable == "Document service not available"

RagReply(b, hasQuery, hasService, be) ==
  IF ~hasQuery THEN HttpError("rag", 400, << QueryIsRequired >>)
  ELSE IF ~hasService THEN HttpError("rag", 503, << DocumentServiceNotAvailable >>)
  ELSE IF be.standard = "raise" THEN HttpError("rag", 500, << ExceptionText >>)
  ELSE [endpoint |-> "rag", status |-> 200, kind |-> "rag",
        content |-> StandardAnswer, error |-> FALSE, session_id |-> Null,
        user_id |-> RagUser(b, be), detail |-> << >>]

RagChatEndpoint ==
  /\ pc = "received"
  /\ reply = Null
  /\ \E hasQuery \in BOOLEAN, hasService \in BOOLEAN :
       reply' = RagReply(body, hasQuery, hasService, backend)
  /\ pc' = "done"
  /\ UNCHANGED << body, headers, clock, tz, result, earlier, backend, progress, sse >>
  /\ UNCHANGED << analyzerVars, memoryVars >>

IdentityBodies ==
  { [NoKeys EXCEPT !.messages = MessageList(<< UserMessage(Hi) >>)],
    [NoKeys EXCEPT !.user_id = Anonymous, !.messages = MessageList(<< UserMessage(Hi) >>)],
    [NoKeys EXCEPT !.user_id = Alice, !.messages = MessageList(<< UserMessage(Hi) >>)],
    [NoKeys EXCEPT !.user = Alice, !.messages = MessageList(<< UserMessage(Hi) >>)] }

InitIdentity ==
  /\ AnalyzerIdle
  /\ body \in IdentityBodies
  /\ headers = << >>
  /\ clock = 0
  /\ tz = 0
  /\ pc = "received"
  /\ result = NoResult
  /\ earlier = NoCall
  /\ cache = EmptyCache
  /\ turns = << >>
  /\ backend \in BackendsWithDocuments
  /\ progress = NoUpload
  /\ sse = NoStream
  /\ reply = Null

NextIdentity == ChatCompletionsWithStreaming \/ RagChatEndpoint

SpecIdentity == InitIdentity /\ [][NextIdentity]_vars

\* The user ids the request itself supplies: its user fields and what the
\* session resolver makes of the request.
RequestUserIds ==
  { v \in { body.user_id, body.user, body.userId } : v.t = "str" }
    \cup { ExtractSession(body, headers, clock, tz, h).uid : h \in UuidHex8 }

IsProcessed == reply # Null /\ reply.kind # "error" /\ reply.user_id # Null

\* C30: the user id a /completions or /rag request is processed under is
\* a user id supplied by the request or 'anonymous', whatever documents
\* other users have stored.
IdentityNonInterference ==
  IsProcessed => reply.user_id \in RequestUserIds \cup { Anonymous }

====
